---- MODULE Spec2Model ----
(***************************************************************************)
(* Credit-Card-Analyzer: a model of the upload/processing state machine of *)
(* App (src/frontend/App.tsx) and of the pure analytics functions of the   *)
(* dashboard views.                                                        *)
(*                                                                         *)
(* An async handler is a "run": every action is one synchronous segment of *)
(* JavaScript (from an event or a settled await up to the next await or    *)
(* the end of the handler).  React state setters and the useEffect that    *)
(* follows the render are folded into the segment.  Time is abstract: an   *)
(* armed timer may fire at any later moment, a request may settle at any   *)
(* later moment.                                                           *)
(*                                                                         *)
(* Amounts are whole currency units (integers).  A date string YYYY-MM-DD  *)
(* is the triple of its fields <<y, m, d>>: the order of the strings is    *)
(* the lexicographic order of the triples.  Instants are minutes since the *)
(* epoch; the local time zone is a fixed offset in minutes.                *)
(***************************************************************************)
EXTENDS Integers, Sequences, FiniteSets, TLC

VARIABLES
    route,               \* react-router location
    data,                \* useState<Transaction[]>
    error,               \* useState<string | null>
    isPasswordModalOpen, \* useState(false)
    processingProgress,  \* useState({current, total, fileName})
    skippedFiles,        \* useState<string[]>
    isProcessing,        \* useState(false)
    pendingFilesRef,     \* useRef<File[]>
    storedPasswordRef,   \* useRef<string>
    timer,               \* the setTimeout of the effect: armed or not, and its delay
    runs,                \* the async handler invocations started so far
    view,                \* the dashboard view computed last, with its result
    env                  \* the browser: the current time (today) and the time zone

vars == <<route, data, error, isPasswordModalOpen, processingProgress, skippedFiles,
          isProcessing, pendingFilesRef, storedPasswordRef, timer, runs, view, env>>

analytics == <<view, env>>

appUi == <<route, data, error, isPasswordModalOpen, processingProgress, skippedFiles,
           isProcessing, pendingFilesRef, storedPasswordRef, timer>>

appVars == <<route, data, error, isPasswordModalOpen, processingProgress, skippedFiles,
             isProcessing, pendingFilesRef, storedPasswordRef, timer, runs>>

-----------------------------------------------------------------------------
(* Bounds *)

MaxFiles == 2
MaxRuns == 2

-----------------------------------------------------------------------------
(* Program constants *)

API_TIMEOUT_MS == 60000

NoTimer == [armed |-> FALSE, delay |-> 0]
null == "null"
NoPassword == "undefined"
Idle == [status |-> "idle"]
NoRequest ==
    [file |-> "", password |-> NoPassword, outcome |-> "none", transactions |-> << >>]

MsgNoTransactions == "No transactions found in any of the uploaded files."
MsgTimedOut == "Request timed out. Please try again."
MsgCancelled == "Upload cancelled - password required for some files."

NoProgress == [current |-> 0, total |-> 0, fileName |-> ""]

-----------------------------------------------------------------------------
(* Strings the model needs character-level operations on *)

\* String.prototype.toLowerCase on the messages and merchant names of the model
ToLowerCase(s) ==
    CASE s = "Incorrect Password" -> "incorrect password"
      [] s = "Internal Server Error" -> "internal server error"
      [] s = "Failed to parse file" -> "failed to parse file"
      [] s = "Netflix" -> "netflix"
      [] s = "NETFLIX" -> "netflix"
      [] s = "Uber" -> "uber"
      [] s = "Jio" -> "jio"
      [] OTHER -> s

\* s.includes('password')
IncludesPassword(s) == s \in {"incorrect password", "password required", "Incorrect password"}

-----------------------------------------------------------------------------
(* The server and parseStatementFile *)

ServerDetails == {"Incorrect Password", "Internal Server Error"}

FileNames == <<"a.pdf", "b.pdf", "c.pdf", "d.pdf">>

FileIndex(f) == CHOOSE k \in 1..Len(FileNames) : FileNames[k] = f

Num(n) == [kind |-> "number", value |-> n]

\* The statement the server extracts from file f, as the JSON items of
\* the response body
StatementOf(f) ==
    << [date |-> <<2024, 1, 15>>, merchant |-> "Netflix", amount |-> Num(100 * FileIndex(f)),
        category |-> "Entertainment"] >>

\* What a request for file f can settle with while the server answers
Responses(f) ==
    { [ok |-> TRUE, body |-> StatementOf(f)], [ok |-> TRUE, body |-> << >>] }
      \cup { [ok |-> FALSE, detail |-> m] : m \in ServerDetails }

\* item && (item.date || item.merchant) && item.amount !== undefined
\*      && !isNaN(Number(item.amount))
ValidItem(item) ==
    /\ item # [json |-> "null"]
    /\ (item.date # << >> \/ item.merchant # "")
    /\ item.amount.kind # "undefined"
    /\ item.amount.kind # "nan"

RECURSIVE FilterValid(_)
FilterValid(items) ==
    IF items = << >> THEN << >>
    ELSE IF ValidItem(Head(items)) THEN <<Head(items)>> \o FilterValid(Tail(items))
         ELSE FilterValid(Tail(items))

\* The .map of parseStatementFile: defaults applied after the filter
ToTransaction(item, index) ==
    [ id |-> <<"parsed-tx", index>>,
      date |-> IF item.date # << >> THEN item.date ELSE <<0, 0, 0>>,
      merchant |-> IF item.merchant # "" THEN item.merchant ELSE "Unknown",
      amount |-> item.amount.value,
      category |-> IF item.category # "" THEN item.category ELSE "Uncategorized" ]

\* parseStatementFile: the settled promise, a value or a rejection
parseStatementFile(resp) ==
    IF resp.ok
    THEN LET valid == FilterValid(resp.body)
         IN [ok |-> TRUE,
             transactions |-> [k \in 1..Len(valid) |-> ToTransaction(valid[k], k - 1)]]
    ELSE [ok |-> FALSE, message |-> resp.detail]

-----------------------------------------------------------------------------
(* Runs: the invocations of handleFilesSelect and processFilesWithPassword *)

\* The File[] the upload zone hands over: n selected files
Selection(n) == SubSeq(FileNames, 1, n)

Passwords == {"secret"}

\* A run that has ended leaves its record behind until its slot is taken again
FreeRuns == {r \in 1..MaxRuns : runs[r].status # "active"}

\* What is kept of a run that has ended: its history, not its locals
Ended(run, outcome) ==
    [ status |-> "done", kind |-> run.kind, files |-> run.files, failed |-> run.failed,
      last |-> run.log[Len(run.log)], timedOut |-> run.timedOut, outcome |-> outcome ]
NewRun == CHOOSE r \in FreeRuns : \A q \in FreeRuns : r <= q
ActiveRuns == {r \in 1..MaxRuns : runs[r].status = "active"}

\* The locals of a handler at its start.  History, for the properties:
\* log (the requests made so far, the last one in flight),
\* failed (the files whose parsing has failed for good), timedOut.
StartRun(kind, files, password) ==
    [ status |-> "active", kind |-> kind, files |-> files, password |-> password,
      i |-> 1, retry |-> FALSE, allTransactions |-> << >>, skipped |-> << >>,
      log |-> << >>, failed |-> << >>, timedOut |-> FALSE ]

\* await parseStatementFile(file, password): the request goes out
Issue(run, file, password) ==
    [run EXCEPT !.log = Append(@, [file |-> file, password |-> password,
                                   outcome |-> "pending", transactions |-> << >>])]

OutcomeOf(res) == IF res.ok THEN "ok" ELSE res.message

\* the request in flight settles: the log keeps what it resolved with
SettleLog(run, res) ==
    [run EXCEPT !.log[Len(run.log)].outcome = OutcomeOf(res),
                !.log[Len(run.log)].transactions =
                    IF res.ok THEN res.transactions ELSE << >>,
                !.failed = IF res.ok \/ (run.kind = "password" /\ ~run.retry
                                          /\ IncludesPassword(ToLowerCase(res.message)))
                           THEN @ ELSE Append(@, run.files[run.i])]

\* What the awaited request of a run can settle with
Outcomes(run) ==
    {parseStatementFile(resp) : resp \in Responses(run.files[run.i])}

\* msg.toLowerCase().includes('password') without the lower-casing
IsPasswordErrorCaseSensitive(msg) == IncludesPassword(msg)

\* msg.toLowerCase().includes('password')
IsPasswordError(msg) == IncludesPassword(ToLowerCase(msg))

\* the useEffect on isProcessing: its cleanup clears the timer, its body arms one
Effect(newIsProcessing) ==
    IF newIsProcessing = isProcessing THEN timer
    ELSE IF newIsProcessing THEN [armed |-> TRUE, delay |-> API_TIMEOUT_MS]
    ELSE NoTimer

ProgressAt(run) ==
    [current |-> run.i, total |-> Len(run.files), fileName |-> run.files[run.i]]

\* err.message || fallback
ErrMessage(res, fallback) == IF res.message = "" THEN fallback ELSE res.message

\* generateMockData: the injected "whale" stands for the generated list
MockData ==
    << [id |-> <<"tx-whale", 0>>, date |-> <<2024, 1, 10>>, merchant |-> "Apple Store",
        amount |-> 1299, category |-> "Shopping"] >>

-----------------------------------------------------------------------------
(* handleFilesSelect *)

\* the try/catch of one loop iteration that does not break
SelectSettled(run, res) ==
    IF res.ok
    THEN [SettleLog(run, res) EXCEPT !.allTransactions = @ \o res.transactions]
    ELSE SettleLog(run, res)

SelectBreaks(res) == ~res.ok /\ IsPasswordError(ErrMessage(res, ""))

\* The user drops n files on the upload zone: the handler runs up to its
\* first await
FilesSelect(n) ==
    /\ route = "/upload"
    /\ ~isPasswordModalOpen
    /\ FreeRuns # {}
    /\ LET run == StartRun("select", Selection(n), NoPassword)
       IN /\ runs' = [runs EXCEPT ![NewRun] = Issue(run, run.files[1], NoPassword)]
          /\ processingProgress' = ProgressAt(run)
    /\ skippedFiles' = << >>
    /\ isProcessing' = TRUE
    /\ timer' = Effect(TRUE)
    /\ route' = "/processing"
    /\ error' = null
    /\ UNCHANGED <<data, isPasswordModalOpen, pendingFilesRef, storedPasswordRef, analytics>>

\* A request of the first pass settles and the loop goes on to the next file
SelectNext(r) ==
    /\ r \in ActiveRuns
    /\ runs[r].kind = "select"
    /\ runs[r].i < Len(runs[r].files)
    /\ \E res \in Outcomes(runs[r]) :
         /\ ~SelectBreaks(res)
         /\ LET run == [SelectSettled(runs[r], res) EXCEPT !.i = @ + 1]
            IN /\ runs' = [runs EXCEPT ![r] = Issue(run, run.files[run.i], NoPassword)]
               /\ processingProgress' = ProgressAt(run)
    /\ UNCHANGED <<route, data, error, isPasswordModalOpen, skippedFiles, isProcessing,
                   pendingFilesRef, storedPasswordRef, timer, analytics>>

\* A request of the first pass fails with a password error: break, prompt
SelectNeedsPassword(r) ==
    /\ r \in ActiveRuns
    /\ runs[r].kind = "select"
    /\ \E res \in Outcomes(runs[r]) :
         /\ SelectBreaks(res)
         /\ runs' = [runs EXCEPT ![r] = Ended(SettleLog(runs[r], res), "needsPassword")]
    /\ pendingFilesRef' = runs[r].files
    /\ isProcessing' = FALSE
    /\ timer' = Effect(FALSE)
    /\ route' = "/upload"
    /\ isPasswordModalOpen' = TRUE
    /\ UNCHANGED <<data, error, processingProgress, skippedFiles, storedPasswordRef, analytics>>

\* The last request of the first pass settles: the tail of the handler
SelectFinish(r) ==
    /\ r \in ActiveRuns
    /\ runs[r].kind = "select"
    /\ runs[r].i = Len(runs[r].files)
    /\ \E res \in Outcomes(runs[r]) :
         /\ ~SelectBreaks(res)
         /\ LET run == SelectSettled(runs[r], res)
            IN IF run.allTransactions = << >>
               THEN /\ runs' = [runs EXCEPT ![r] = Ended(run, "empty")]
                    /\ error' = MsgNoTransactions
                    /\ route' = "/upload"
                    /\ UNCHANGED data
               ELSE /\ runs' = [runs EXCEPT ![r] = Ended(run, "dashboard")]
                    /\ data' = run.allTransactions
                    /\ route' = "/dashboard"
                    /\ UNCHANGED error
    /\ isProcessing' = FALSE
    /\ timer' = Effect(FALSE)
    /\ UNCHANGED <<isPasswordModalOpen, processingProgress, skippedFiles, pendingFilesRef,
                   storedPasswordRef, analytics>>

-----------------------------------------------------------------------------
(* processFilesWithPassword, entered from handlePasswordSubmit *)

\* the catch retries on every failure of the first attempt
NeedsRetryAnyError(run, res) == ~res.ok /\ ~run.retry

\* The first attempt failed with a password error: try without password
NeedsRetry(run, res) ==
    /\ ~res.ok
    /\ ~run.retry
    /\ IsPasswordError(ErrMessage(res, "Failed to parse file"))

\* One loop iteration is over: the locals after the try/catch
PasswordSettled(run, res) ==
    LET file == run.files[run.i]
        logged == [SettleLog(run, res) EXCEPT !.retry = FALSE]
    IN IF res.ok
       THEN [logged EXCEPT !.allTransactions = @ \o res.transactions]
       ELSE IF run.retry
            THEN [logged EXCEPT !.skipped = Append(@, <<file, "incorrect password">>)]
            ELSE [logged EXCEPT !.skipped =
                      Append(@, <<file, ErrMessage(res, "Failed to parse file")>>)]

\* Lines 83-96: the tail of processFilesWithPassword, for run r
PasswordTail(r, run) ==
    /\ skippedFiles' = run.skipped
    /\ pendingFilesRef' = << >>
    /\ storedPasswordRef' = ""
    /\ isProcessing' = FALSE
    /\ timer' = Effect(FALSE)
    /\ IF run.allTransactions = << >>
       THEN /\ runs' = [runs EXCEPT ![r] = Ended(run, "empty")]
            /\ error' = MsgNoTransactions
            /\ route' = "/upload"
            /\ UNCHANGED data
       ELSE /\ runs' = [runs EXCEPT ![r] = Ended(run, "dashboard")]
            /\ data' = run.allTransactions
            /\ route' = "/dashboard"
            /\ UNCHANGED error

\* handlePasswordSubmit: the modal closes and processFilesWithPassword runs
\* up to its first await (or to its end when nothing is pending)
PasswordSubmit(password) ==
    /\ isPasswordModalOpen
    /\ FreeRuns # {}
    /\ isPasswordModalOpen' = FALSE
    /\ LET run == StartRun("password", pendingFilesRef, password)
       IN IF run.files = << >>
          THEN /\ PasswordTail(NewRun, [run EXCEPT !.log = <<NoRequest>>])
               /\ UNCHANGED processingProgress
          ELSE /\ runs' = [runs EXCEPT ![NewRun] = Issue(run, run.files[1], password)]
               /\ storedPasswordRef' = password
               /\ isProcessing' = TRUE
               /\ timer' = Effect(TRUE)
               /\ route' = "/processing"
               /\ error' = null
               /\ processingProgress' = ProgressAt(run)
               /\ UNCHANGED <<data, skippedFiles, pendingFilesRef>>
    /\ UNCHANGED analytics

\* The attempt with the password failed with a password error: the same file
\* is requested again without password
PasswordRetry(r) ==
    /\ r \in ActiveRuns
    /\ runs[r].kind = "password"
    /\ \E res \in Outcomes(runs[r]) :
         /\ NeedsRetry(runs[r], res)
         /\ LET run == [SettleLog(runs[r], res) EXCEPT !.retry = TRUE]
            IN runs' = [runs EXCEPT ![r] = Issue(run, run.files[run.i], NoPassword)]
    /\ UNCHANGED <<appUi, analytics>>

\* A file is done (parsed or skipped) and the loop goes on to the next file
PasswordNext(r) ==
    /\ r \in ActiveRuns
    /\ runs[r].kind = "password"
    /\ runs[r].i < Len(runs[r].files)
    /\ \E res \in Outcomes(runs[r]) :
         /\ ~NeedsRetry(runs[r], res)
         /\ LET run == [PasswordSettled(runs[r], res) EXCEPT !.i = @ + 1]
            IN /\ runs' = [runs EXCEPT ![r] = Issue(run, run.files[run.i], run.password)]
               /\ processingProgress' = ProgressAt(run)
    /\ UNCHANGED <<route, data, error, isPasswordModalOpen, skippedFiles, isProcessing,
                   pendingFilesRef, storedPasswordRef, timer, analytics>>

\* The last file is done: the tail of processFilesWithPassword
PasswordFinish(r) ==
    /\ r \in ActiveRuns
    /\ runs[r].kind = "password"
    /\ runs[r].i = Len(runs[r].files)
    /\ \E res \in Outcomes(runs[r]) :
         /\ ~NeedsRetry(runs[r], res)
         /\ LET run == PasswordSettled(runs[r], res)
            IN /\ PasswordTail(r, run)
               /\ processingProgress' =
                     IF run.allTransactions = << >> THEN processingProgress ELSE NoProgress
    /\ UNCHANGED <<isPasswordModalOpen, analytics>>

-----------------------------------------------------------------------------
(* The other handlers, the timer and the clock *)

handlePasswordCancel ==
    /\ isPasswordModalOpen
    /\ isPasswordModalOpen' = FALSE
    /\ pendingFilesRef' = << >>
    /\ route' = "/upload"
    /\ error' = MsgCancelled
    /\ UNCHANGED <<data, processingProgress, skippedFiles, isProcessing, storedPasswordRef,
                   timer, runs, analytics>>

handleUseDemoData ==
    /\ route = "/"
    /\ data' = MockData
    /\ route' = "/dashboard"
    /\ UNCHANGED <<error, isPasswordModalOpen, processingProgress, skippedFiles, isProcessing,
                   pendingFilesRef, storedPasswordRef, timer, runs, analytics>>

\* onGetStarted of the landing page
GetStarted ==
    /\ route = "/"
    /\ route' = "/upload"
    /\ UNCHANGED <<data, error, isPasswordModalOpen, processingProgress, skippedFiles,
                   isProcessing, pendingFilesRef, storedPasswordRef, timer, runs, analytics>>

handleReset ==
    /\ route = "/dashboard"
    /\ data' = << >>
    /\ error' = null
    /\ skippedFiles' = << >>
    /\ pendingFilesRef' = << >>
    /\ storedPasswordRef' = ""
    /\ route' = "/upload"
    /\ UNCHANGED <<isPasswordModalOpen, processingProgress, isProcessing, timer, runs, analytics>>

\* The x button of the skipped-files warning
DismissSkipped ==
    /\ skippedFiles # << >>
    /\ skippedFiles' = << >>
    /\ UNCHANGED <<route, data, error, isPasswordModalOpen, processingProgress, isProcessing,
                   pendingFilesRef, storedPasswordRef, timer, runs, analytics>>

\* The x button of the error toast
DismissError ==
    /\ error # null
    /\ ~isPasswordModalOpen
    /\ error' = null
    /\ UNCHANGED <<route, data, isPasswordModalOpen, processingProgress, skippedFiles,
                   isProcessing, pendingFilesRef, storedPasswordRef, timer, runs, analytics>>

\* The setTimeout callback of the effect (lines 36-42), API_TIMEOUT_MS after
\* the timer was armed.  timedOut records the runs it finds in progress.
Timeout ==
    /\ timer.armed
    /\ isProcessing' = FALSE
    /\ error' = MsgTimedOut
    /\ processingProgress' = NoProgress
    /\ route' = "/upload"
    /\ timer' = NoTimer
    /\ runs' = [r \in 1..MaxRuns |->
                  IF r \in ActiveRuns
                  THEN [runs[r] EXCEPT !.timedOut = TRUE]
                  ELSE runs[r]]
    /\ UNCHANGED <<data, isPasswordModalOpen, skippedFiles, pendingFilesRef,
                   storedPasswordRef, analytics>>

NoView == [op |-> "none"]

\* useState/useRef initial values, the data and the location apart
InitUi ==
    /\ error = null
    /\ isPasswordModalOpen = FALSE
    /\ processingProgress = NoProgress
    /\ skippedFiles = << >>
    /\ isProcessing = FALSE
    /\ pendingFilesRef = << >>
    /\ storedPasswordRef = ""
    /\ timer = NoTimer
    /\ runs = [r \in 1..MaxRuns |-> Idle]

UTC == [today |-> 0, tz |-> 0]

Init ==
    /\ InitUi
    /\ route = "/"
    /\ data = << >>
    /\ view = NoView
    /\ env = UTC

Next ==
    \/ \E n \in 1..MaxFiles : FilesSelect(n)
    \/ \E r \in 1..MaxRuns : SelectNext(r)
    \/ \E r \in 1..MaxRuns : SelectNeedsPassword(r)
    \/ \E r \in 1..MaxRuns : SelectFinish(r)
    \/ \E password \in Passwords : PasswordSubmit(password)
    \/ \E r \in 1..MaxRuns : PasswordRetry(r)
    \/ \E r \in 1..MaxRuns : PasswordNext(r)
    \/ \E r \in 1..MaxRuns : PasswordFinish(r)
    \/ handlePasswordCancel
    \/ handleUseDemoData
    \/ GetStarted
    \/ handleReset
    \/ DismissSkipped
    \/ DismissError
    \/ Timeout

Spec == Init /\ [][Next]_vars

-----------------------------------------------------------------------------
(* Sequences, as the array methods use them *)

RECURSIVE Sum(_)
\* reduce((a, b) => a + b, 0)
Sum(seq) == IF seq = << >> THEN 0 ELSE Head(seq) + Sum(Tail(seq))

\* amounts = transactions.map(t => t.amount)
Amounts(txs) == [k \in 1..Len(txs) |-> txs[k].amount]

\* Array.prototype.sort with a comparator, stable: Before(a, b) is
\* "compare(a, b) < 0"; an element goes after the earlier elements it ties with
SortBy(seq, Before(_, _)) ==
    LET elems == seq \o << >>      \* the array, as a tuple
        rank == [i \in 1..Len(elems) |->
                    Cardinality({j \in 1..Len(elems) :
                        \/ Before(elems[j], elems[i])
                        \/ (~Before(elems[i], elems[j]) /\ j < i)})] \o << >>
    IN [p \in 1..Len(elems) |-> elems[CHOOSE i \in 1..Len(elems) : rank[i] = p - 1]]

RECURSIVE FirstOccurrences(_)
\* the keys of a Map in insertion order
FirstOccurrences(keys) ==
    IF keys = << >> THEN << >>
    ELSE LET rest == FirstOccurrences(SubSeq(keys, 1, Len(keys) - 1))
             last == keys[Len(keys)]
         IN IF \E k \in 1..Len(rest) : rest[k] = last THEN rest ELSE Append(rest, last)

\* slice(0, n)
Slice(seq, n) == SubSeq(seq, 1, IF Len(seq) < n THEN Len(seq) ELSE n)

RECURSIVE Flatten(_)
Flatten(seqs) == IF seqs = << >> THEN << >> ELSE Head(seqs) \o Flatten(Tail(seqs))

\* data.filter(t => t.amount > 0)
Debits(txs) == SelectSeq(txs, LAMBDA t : t.amount > 0)

RECURSIVE Decimal(_)
\* String(n) for n >= 0, as the sequence of its decimal digits
Decimal(n) == IF n < 10 THEN <<n>> ELSE Append(Decimal(n \div 10), n % 10)

RECURSIVE TextBefore(_, _)
\* a < b for two strings of digits, compared by UTF-16 code units
TextBefore(a, b) ==
    IF b = << >> THEN FALSE
    ELSE IF a = << >> THEN TRUE
    ELSE IF a[1] # b[1] THEN a[1] < b[1]
    ELSE TextBefore(Tail(a), Tail(b))

-----------------------------------------------------------------------------
(* Date *)

IsLeap(y) == (y % 4 = 0 /\ y % 100 # 0) \/ y % 400 = 0

DaysInMonth(y, m) ==
    IF m = 2 THEN (IF IsLeap(y) THEN 29 ELSE 28)
    ELSE IF m \in {4, 6, 9, 11} THEN 30 ELSE 31

RECURSIVE DaysBeforeMonth(_, _)
DaysBeforeMonth(y, m) == IF m = 1 THEN 0 ELSE DaysBeforeMonth(y, m - 1) + DaysInMonth(y, m - 1)

\* the leap years before year y
LeapsBefore(y) == (y - 1) \div 4 - (y - 1) \div 100 + (y - 1) \div 400

\* days from 1970-01-01 to January 1st of y (y >= 1970)
DaysBeforeYear(y) == 365 * (y - 1970) + LeapsBefore(y) - LeapsBefore(1970)

\* MakeDay: the day number of (y, m, d), where d may run over the month's end
MakeDay(y, m, d) == DaysBeforeYear(y) + DaysBeforeMonth(y, m) + d - 1

\* The years the model's dates lie in
Years == 2023..2027

\* the civil date of day number n of year y, month m
CivilIn(y, m, n) == <<y, m, n - MakeDay(y, m, 1) + 1>>

\* the civil date of a day number; the year and the month are found once
CivilOfDay(n) ==
    CHOOSE c \in {CivilIn(y, m, n) :
                    y \in {yy \in Years : MakeDay(yy, 1, 1) <= n /\ n < MakeDay(yy + 1, 1, 1)},
                    m \in 1..12} :
        1 <= c[3] /\ c[3] <= DaysInMonth(c[1], c[2])

MinutesPerDay == 24 * 60

\* floor of n / d for d > 0
FloorDiv(n, d) == IF n >= 0 THEN n \div d ELSE -((-n + d - 1) \div d)

\* Math.ceil(n / d) for d > 0
CeilDiv(n, d) == -FloorDiv(-n, d)

\* new Date("YYYY-MM-DD").getTime(): midnight UTC of the date
DateOf(date) == MakeDay(date[1], date[2], date[3]) * MinutesPerDay

\* getTime() differences are taken in days
DayOf(date) == MakeDay(date[1], date[2], date[3])

\* the local fields of an instant in the zone with offset tz
LocalDay(t, tz) == FloorDiv(t + tz, MinutesPerDay)
LocalMinute(t, tz) == (t + tz) - LocalDay(t, tz) * MinutesPerDay

\* the instant at the local minute of the civil date c moved on by k months
MonthPlus(c, minute, k) ==
    MakeDay(c[1] + ((c[2] - 1) + k) \div 12, (((c[2] - 1) + k) % 12) + 1, c[3]) * MinutesPerDay
        + minute

\* d.setMonth(d.getMonth() + k); the local civil date is taken once
SetMonthPlus(t, tz, k) ==
    CHOOSE next \in {MonthPlus(c, LocalMinute(t, tz) - tz, k) :
                        c \in {CivilOfDay(LocalDay(t, tz))}} : TRUE

\* d.setDate(d.getDate() + k)
SetDatePlus(t, tz, k) == t + k * MinutesPerDay

\* the instant at the local minute of the civil date c moved on by k years
FullYearPlus(c, minute, k) == MakeDay(c[1] + k, c[2], c[3]) * MinutesPerDay + minute

\* d.setFullYear(d.getFullYear() + k); the local civil date is taken once
SetFullYearPlus(t, tz, k) ==
    CHOOSE next \in {FullYearPlus(c, LocalMinute(t, tz) - tz, k) :
                        c \in {CivilOfDay(LocalDay(t, tz))}} : TRUE

\* d.toISOString().split('T')[0]
ISODate(t) == CivilOfDay(FloorDiv(t, MinutesPerDay))

-----------------------------------------------------------------------------
(* Outliers: mean + 2 sigma, population standard deviation *)

Square(x) == x * x

\* a > avgAmount + k * stdDev in exact arithmetic, where avgAmount = S / n and
\* stdDev = sqrt(sum((a_i - avgAmount)^2) / n).  With Dev(x) = n * x - S, that
\* is n times the distance of x from the mean, the test is
\* Dev(a) > 0 and n * Dev(a)^2 > k^2 * sum(Dev(a_i)^2).  With no amounts
\* avgAmount is NaN and every comparison is false.
AboveMeanPlus(k, a, amounts) ==
    LET n == Len(amounts)
        Dev(x) == n * x - Sum(amounts)
    IN /\ n > 0
       /\ Dev(a) > 0
       /\ n * Square(Dev(a)) > Square(k) * Sum([i \in 1..n |-> Square(Dev(amounts[i]))])

\* a > threshold, threshold = avgAmount + 2 * stdDev
AboveThreshold(a, amounts) == AboveMeanPlus(2, a, amounts)

\* AlertsAnomalies: expenses.filter(t => t.amount > threshold)
AnomalyOutliers(txs) ==
    LET expenses == Debits(txs)
    IN SelectSeq(expenses, LAMBDA t : AboveThreshold(t.amount, Amounts(expenses)))

\* AlertsAnomalies: the alerts of the first three outliers
OutlierAlerts(txs) ==
    LET outliers == Slice(AnomalyOutliers(txs), 3)
    IN [k \in 1..Len(outliers) |->
          [id |-> <<"outlier", k - 1>>, type |-> "anomaly",
           amount |-> outliers[k].amount, date |-> outliers[k].date]]

\* SmartAnalytics: debits.filter(t => t.amount > avgAmount + 2 * stdDev),
\* then sorted by amount, largest first
SmartOutliers(txs) ==
    LET debits == Debits(txs)
    IN SortBy(SelectSeq(debits, LAMBDA t : AboveThreshold(t.amount, Amounts(debits))),
              LAMBDA a, b : b.amount - a.amount < 0)

-----------------------------------------------------------------------------
(* The key -> accumulator maps of the views *)

\* existing.amount = t.amount: the last amount replaces the total
Overwritten(bucket) == bucket[Len(bucket)].amount

\* existing.amount += t.amount over the transactions of a bucket
Accumulated(bucket) == Sum(Amounts(bucket))

\* (amount / totalSpend) * 100, kept as the fraction <<numerator, denominator>>
Percentage(amount, totalSpend) == <<amount * 100, totalSpend>>

-----------------------------------------------------------------------------
(* SpendingXRay *)

\* t.date.substring(0, 7)
MonthOf(date) == <<date[1], date[2]>>

\* a.localeCompare(b) < 0 of two "YYYY-MM" keys
MonthBefore(a, b) == a[1] < b[1] \/ (a[1] = b[1] /\ a[2] < b[2])

\* entries: the total of each month, by month
MonthEntries(txs) ==
    LET expenses == Debits(txs)
        months == FirstOccurrences([k \in 1..Len(expenses) |-> MonthOf(expenses[k].date)])
    IN SortBy([k \in 1..Len(months) |->
                  [month |-> months[k],
                   amount |-> Sum(Amounts(SelectSeq(expenses,
                                  LAMBDA t : MonthOf(t.date) = months[k])))]],
              LAMBDA a, b : MonthBefore(a.month, b.month))

\* monthlyData: isSpike: amount > threshold, threshold = avgAmount + stdDev
monthlyData(txs) ==
    LET entries == MonthEntries(txs)
    IN [k \in 1..Len(entries) |->
          [month |-> entries[k].month,
           amount |-> entries[k].amount,
           isSpike |-> AboveMeanPlus(1, entries[k].amount, Amounts(entries))]]

\* topCategories: the five largest category buckets
topCategories(txs) ==
    LET expenses == Debits(txs)
        total == Sum(Amounts(expenses))
        names == FirstOccurrences([k \in 1..Len(expenses) |-> expenses[k].category])
        Bucket(name) == SelectSeq(expenses, LAMBDA t : t.category = name)
    IN Slice(SortBy([k \in 1..Len(names) |->
                        [name |-> names[k],
                         amount |-> Accumulated(Bucket(names[k])),
                         percentage |-> Percentage(Accumulated(Bucket(names[k])), total)]],
                    LAMBDA a, b : b.amount - a.amount < 0), 5)

\* topMerchants: the ten largest merchant buckets
topMerchants(txs) ==
    LET expenses == Debits(txs)
        names == FirstOccurrences([k \in 1..Len(expenses) |-> expenses[k].merchant])
        Bucket(name) == SelectSeq(expenses, LAMBDA t : t.merchant = name)
    IN Slice(SortBy([k \in 1..Len(names) |->
                        [name |-> names[k],
                         amount |-> Accumulated(Bucket(names[k])),
                         count |-> Len(Bucket(names[k]))]],
                    LAMBDA a, b : b.amount - a.amount < 0), 10)

-----------------------------------------------------------------------------
(* RiskLeakageDetection *)

\* amount.toFixed(2) of a whole amount: its digits, then ".00"
ToFixed2(a) == <<a, 0>>

\* `${t.merchant.toLowerCase()}_${t.amount.toFixed(2)}`
DupKey(t) == <<ToLowerCase(t.merchant), ToFixed2(t.amount)>>

\* String(new Date(date).getTime()): the milliseconds are day * 864 * 10^5,
\* so their text is that of day * 864 followed by five zeros
TimeText(day) == Decimal(day * 864) \o <<0, 0, 0, 0, 0>>

\* dates.sort(): without a comparator the numbers are sorted as strings
SortedTimes(transactions) ==
    LET times == [k \in 1..Len(transactions) |->
                     [day |-> DayOf(transactions[k].date),
                      text |-> TimeText(DayOf(transactions[k].date))]]
        sorted == SortBy(times, LAMBDA a, b : TextBefore(a.text, b.text))
    IN [k \in 1..Len(sorted) |-> sorted[k].day]

\* (maxDate - minDate) <= 0: the same day only
SamePeriodSameDay(transactions) ==
    LET dates == SortedTimes(transactions)
    IN dates[Len(dates)] - dates[1] <= 0

\* minDate = dates[0], maxDate = dates[dates.length - 1];
\* (maxDate - minDate) <= 2 days
SamePeriod(transactions) ==
    LET dates == SortedTimes(transactions)
    IN dates[Len(dates)] - dates[1] <= 2

\* 1. Duplicate Charges Detection
DuplicateAlerts(debits) ==
    LET keys == FirstOccurrences([k \in 1..Len(debits) |-> DupKey(debits[k])])
        Group(key) == SelectSeq(debits, LAMBDA t : DupKey(t) = key)
        flagged == SelectSeq(keys, LAMBDA key :
                                Len(Group(key)) >= 2 /\ SamePeriod(Group(key)))
    IN [k \in 1..Len(flagged) |->
          [id |-> <<"dup", flagged[k]>>, type |-> "duplicate", severity |-> "high",
           amount |-> Sum(Amounts(Group(flagged[k]))),
           transactions |-> Group(flagged[k])]]

\* the filter without the 10,000 floor
HighValueTxThresholdOnly(debits) ==
    SelectSeq(debits, LAMBDA t : AboveThreshold(t.amount, Amounts(debits)))

\* debits.filter(t => t.amount > threshold || t.amount > 10000)
HighValueTx(debits) ==
    SelectSeq(debits, LAMBDA t :
                 AboveThreshold(t.amount, Amounts(debits)) \/ t.amount > 10000)

\* 3. High-Value Transaction Detection
HighValueAlerts(debits) ==
    IF Len(HighValueTx(debits)) > 0
    THEN << [id |-> "high_value", type |-> "high_value", severity |-> "medium",
             count |-> Len(HighValueTx(debits)),
             transactions |-> Slice(HighValueTx(debits), 5)] >>
    ELSE << >>

\* a.localeCompare(b) < 0 of two ISO dates: the earlier date
DateBefore(a, b) ==
    \/ a[1] < b[1]
    \/ (a[1] = b[1] /\ a[2] < b[2])
    \/ (a[1] = b[1] /\ a[2] = b[2] /\ a[3] < b[3])

\* merchantFirstSeen.get(key)
FirstSeen(debits, key) ==
    LET sortedDebits == SortBy(debits, LAMBDA a, b : DateBefore(a.date, b.date))
        k == CHOOSE i \in 1..Len(sortedDebits) :
                 /\ ToLowerCase(sortedDebits[i].merchant) = key
                 /\ \A j \in 1..(i - 1) : ToLowerCase(sortedDebits[j].merchant) # key
    IN sortedDebits[k].date

\* merchantTotals.get(key)
MerchantTotal(debits, key) ==
    Sum(Amounts(SelectSeq(debits, LAMBDA t : ToLowerCase(t.merchant) = key)))

\* the merchants first seen in the 30 days before today whose total is above
\* 3 * avgAmount = 3 * S / n
NewHighSpendMerchants(debits, today) ==
    LET keys == FirstOccurrences([k \in 1..Len(debits) |-> ToLowerCase(debits[k].merchant)])
    IN SelectSeq(keys, LAMBDA key :
          /\ DateOf(FirstSeen(debits, key)) >= today - 30 * MinutesPerDay
          /\ Len(debits) * MerchantTotal(debits, key) > 3 * Sum(Amounts(debits)))

\* 5. Suspicious New Merchant Pattern
SuspiciousAlerts(debits, today) ==
    IF Len(NewHighSpendMerchants(debits, today)) > 0
    THEN << [id |-> "suspicious_new", type |-> "suspicious", severity |-> "medium",
             count |-> Len(NewHighSpendMerchants(debits, today))] >>
    ELSE << >>

severityOrder(severity) ==
    CASE severity = "critical" -> 0
      [] severity = "high" -> 1
      [] severity = "medium" -> 2
      [] severity = "low" -> 3

\* The alerts of the duplicate, high-value and new-merchant detectors, sorted
\* by severity.  (The late-fee, interest and foreign-currency detectors match
\* keywords that the merchant names of the model do not contain.)
risks(txs, today) ==
    SortBy(DuplicateAlerts(Debits(txs)) \o HighValueAlerts(Debits(txs))
               \o SuspiciousAlerts(Debits(txs), today),
           LAMBDA a, b : severityOrder(a.severity) - severityOrder(b.severity) < 0)

-----------------------------------------------------------------------------
(* RecurringPaymentFinder *)

\* s.trim()
Trim(s) ==
    CASE s = "netflix " -> "netflix"
      [] s = " netflix" -> "netflix"
      [] OTHER -> s

\* merchant.charAt(0).toUpperCase() + merchant.slice(1)
Capitalize(s) ==
    CASE s = "netflix" -> "Netflix"
      [] s = "uber" -> "Uber"
      [] s = "jio" -> "Jio"
      [] OTHER -> s

EMI_KEYWORDS == {"emi", "loan", "installment", "bajaj", "hdfc emi", "icici emi"}

UTILITY_KEYWORDS ==
    {"electricity", "water", "gas", "internet", "broadband", "wifi", "jio", "airtel",
     "vodafone", "bsnl", "tata play", "dth", "insurance"}

\* KEYWORDS.some(kw => merchantLower.includes(kw)), for the merchant keys of
\* the model, which contain a keyword only as a whole
PaymentType(merchant) ==
    IF merchant \in EMI_KEYWORDS THEN "emi"
    ELSE IF merchant \in UTILITY_KEYWORDS THEN "utility"
    ELSE "subscription"

\* t.merchant.toLowerCase().trim()
MerchantKey(t) == Trim(ToLowerCase(t.merchant))

\* merchantMap.get(key): the debits of the merchant, in order
MerchantGroup(debits, key) == SelectSeq(debits, LAMBDA t : MerchantKey(t) = key)

\* data.amounts.every(a => Math.abs(a - avgAmount) / avgAmount < 0.1) with
\* avgAmount = S / n > 0:  10 * |n * a - S| < S
isConsistent(amounts) ==
    \A k \in 1..Len(amounts) :
        LET d == Len(amounts) * amounts[k] - Sum(amounts)
        IN 10 * (IF d < 0 THEN -d ELSE d) < Sum(amounts)

\* data.dates.sort(): ISO dates as strings, earliest first
SortedDates(group) ==
    SortBy([k \in 1..Len(group) |-> group[k].date], DateBefore)

\* the sum of the day differences of consecutive sorted dates
TotalDays(sortedDates) ==
    Sum([k \in 1..(Len(sortedDates) - 1) |->
            DayOf(sortedDates[k + 1]) - DayOf(sortedDates[k])])

\* avgDaysBetween = totalDays / (n - 1) against the bands 10, 45 and 120
Frequency(sortedDates) ==
    LET totalDays == TotalDays(sortedDates)
        gaps == Len(sortedDates) - 1
    IN IF totalDays <= 10 * gaps THEN "weekly"
       ELSE IF totalDays <= 45 * gaps THEN "monthly"
       ELSE IF totalDays <= 120 * gaps THEN "quarterly"
       ELSE "yearly"

yearlyMultiplier(frequency) ==
    CASE frequency = "weekly" -> 52
      [] frequency = "monthly" -> 12
      [] frequency = "quarterly" -> 4
      [] frequency = "yearly" -> 1

\* one step of the switch on frequency
StepRenewal(t, tz, frequency) ==
    CASE frequency = "weekly" -> SetDatePlus(t, tz, 7)
      [] frequency = "monthly" -> SetMonthPlus(t, tz, 1)
      [] frequency = "quarterly" -> SetMonthPlus(t, tz, 3)
      [] frequency = "yearly" -> SetFullYearPlus(t, tz, 1)

RECURSIVE CatchUp(_, _, _, _)
\* while (nextRenewal < today) { step }
CatchUp(t, today, tz, frequency) ==
    IF t < today THEN CatchUp(StepRenewal(t, tz, frequency), today, tz, frequency) ELSE t

\* Calculate next renewal
NextRenewal(lastPaymentDate, today, tz, frequency) ==
    CatchUp(StepRenewal(DateOf(lastPaymentDate), tz, frequency), today, tz, frequency)

\* the payment pushed for a merchant; amounts are kept as fractions <<num, den>>
Payment(key, group, today, tz) ==
    LET sortedDates == SortedDates(group)
        frequency == Frequency(sortedDates)
        lastPaymentDate == sortedDates[Len(sortedDates)]
        nextRenewal == NextRenewal(lastPaymentDate, today, tz, frequency)
    IN [id |-> key,
        merchant |-> Capitalize(key),
        type |-> PaymentType(key),
        amount |-> <<Sum(Amounts(group)), Len(group)>>,
        frequency |-> frequency,
        lastPaymentDate |-> lastPaymentDate,
        nextRenewalDate |-> ISODate(nextRenewal),
        daysUntilRenewal |-> CeilDiv(nextRenewal - today, MinutesPerDay),
        occurrences |-> Len(group),
        yearlyTotal |-> <<Sum(Amounts(group)) * yearlyMultiplier(frequency), Len(group)>>,
        category |-> group[1].category]

\* recurringPayments: the merchants with at least two charges of consistent
\* amounts, soonest renewal first
recurringPayments(txs, today, tz) ==
    LET debits == Debits(txs)
        keys == FirstOccurrences([k \in 1..Len(debits) |-> MerchantKey(debits[k])])
        kept == SelectSeq(keys, LAMBDA key :
                    /\ Len(MerchantGroup(debits, key)) >= 2
                    /\ isConsistent(Amounts(MerchantGroup(debits, key))))
    IN SortBy([k \in 1..Len(kept) |->
                  Payment(kept[k], MerchantGroup(debits, kept[k]), today, tz)],
              LAMBDA a, b : a.daysUntilRenewal - b.daysUntilRenewal < 0)

-----------------------------------------------------------------------------
(* BehaviorInsights: 5. Subscription Analysis *)

\* data.amounts.every(a => Math.abs(a - avgAmount) / avgAmount < 0.15) with
\* avgAmount = S / n > 0:  20 * |n * a - S| < 3 * S
isConsistent15(amounts) ==
    \A k \in 1..Len(amounts) :
        LET d == Len(amounts) * amounts[k] - Sum(amounts)
        IN 20 * (IF d < 0 THEN -d ELSE d) < 3 * Sum(amounts)

\* avgDaysBetween > 180 ? 'yearly' : 'monthly'
SubscriptionFrequency(sortedDates) ==
    IF TotalDays(sortedDates) > 180 * (Len(sortedDates) - 1) THEN "yearly" ELSE "monthly"

\* the subscription pushed for a merchant; amounts are fractions <<num, den>>
Subscription(key, group) ==
    LET frequency == SubscriptionFrequency(SortedDates(group))
    IN [merchant |-> Capitalize(key),
        amount |-> <<Sum(Amounts(group)), Len(group)>>,
        frequency |-> frequency,
        yearlyTotal |-> <<Sum(Amounts(group)) * (IF frequency = "monthly" THEN 12 ELSE 1),
                          Len(group)>>]

\* subscriptions, after subscriptions.sort((a, b) => b.yearlyTotal - a.yearlyTotal)
subscriptions(txs) ==
    LET debits == Debits(txs)
        keys == FirstOccurrences([k \in 1..Len(debits) |-> MerchantKey(debits[k])])
        kept == SelectSeq(keys, LAMBDA key :
                    /\ Len(MerchantGroup(debits, key)) >= 2
                    /\ isConsistent15(Amounts(MerchantGroup(debits, key))))
    IN SortBy([k \in 1..Len(kept) |-> Subscription(kept[k], MerchantGroup(debits, kept[k]))],
              LAMBDA a, b : b.yearlyTotal[1] * a.yearlyTotal[2]
                               - a.yearlyTotal[1] * b.yearlyTotal[2] < 0)

\* the 'subscriptions' insight: the count and the five largest
SubscriptionInsights(txs) ==
    IF Len(subscriptions(txs)) > 0
    THEN << [id |-> "subscriptions", count |-> Len(subscriptions(txs)),
             topSubs |-> Slice(subscriptions(txs), 5)] >>
    ELSE << >>

-----------------------------------------------------------------------------
(* The dashboard renders a view of data *)

RenderRiskLeakageDetection ==
    /\ view' = [op |-> "RiskLeakageDetection", risks |-> risks(data, env.today),
                outliers |-> HighValueTx(Debits(data))]
    /\ UNCHANGED <<appVars, env>>

RenderAlertsAnomalies ==
    /\ view' = [op |-> "AlertsAnomalies", alerts |-> OutlierAlerts(data),
                outliers |-> AnomalyOutliers(data)]
    /\ UNCHANGED <<appVars, env>>

RenderSmartAnalytics ==
    /\ view' = [op |-> "SmartAnalytics", outliers |-> SmartOutliers(data)]
    /\ UNCHANGED <<appVars, env>>

\* The dashboard shows the transactions txs
Dashboard(txs) ==
    /\ InitUi
    /\ route = "/dashboard"
    /\ data = txs
    /\ view = NoView

\* the transactions f[1], f[2], ... with ids by position
Numbered(f) ==
    [k \in DOMAIN f |-> [id |-> <<"tx", k>>, date |-> f[k].date,
                         merchant |-> f[k].merchant, amount |-> f[k].amount,
                         category |-> f[k].category]]

MaxDupTx == 3

\* Charges of one merchant under two spellings, on days 0, 1 and 3 apart
DupProtos ==
    [date : {<<2024, 1, 31>>, <<2024, 2, 1>>, <<2024, 2, 3>>},
     merchant : {"Netflix", "NETFLIX"}, amount : {100, 250, -100},
     category : {"Entertainment"}]

\* the morning of 2024-02-10, UTC
February2024 == [today |-> DateOf(<<2024, 2, 10>>) + 10 * 60, tz |-> 0]

InitRisk ==
    /\ \E n \in 1..MaxDupTx : \E f \in [1..n -> DupProtos] : Dashboard(Numbered(f))
    /\ env = February2024

\* Charges on either side of 2001-09-09, the day the milliseconds since 1970
\* reach 13 digits, and charges 1 and 3 days apart in 2024
WindowProtos ==
    [date : {<<2001, 9, 1>>, <<2001, 9, 20>>, <<2024, 1, 31>>, <<2024, 2, 1>>,
             <<2024, 2, 3>>},
     merchant : {"Netflix", "NETFLIX"}, amount : {100, 250},
     category : {"Entertainment"}]

InitDuplicates ==
    /\ \E n \in 1..MaxDupTx : \E f \in [1..n -> WindowProtos] : Dashboard(Numbered(f))
    /\ env = February2024

NextRisk == RenderRiskLeakageDetection

SpecRisk == InitRisk /\ [][NextRisk]_vars

SpecDuplicates == InitDuplicates /\ [][NextRisk]_vars

RenderSpendingXRay ==
    /\ view' = [op |-> "SpendingXRay", monthlyData |-> monthlyData(data),
                topCategories |-> topCategories(data),
                topMerchants |-> topMerchants(data)]
    /\ UNCHANGED <<appVars, env>>

MaxOutlierTx == 6

MaxMonthTx == 3

OutlierProtos ==
    [date : {<<2024, 1, 15>>}, merchant : {"Uber"}, amount : {100, 400, 1000},
     category : {"Transport"}]

\* Amounts around the floor of 10,000
FloorProtos ==
    [date : {<<2024, 1, 15>>}, merchant : {"Uber"}, amount : {9900, 10000, 10200},
     category : {"Transport"}]

\* Expenses in three months
MonthProtos ==
    [date : {<<2023, 12, 15>>, <<2024, 1, 15>>, <<2024, 2, 15>>}, merchant : {"Uber"},
     amount : {100, 1000}, category : {"Transport"}]

InitOutliers ==
    /\ \/ \E protos \in {OutlierProtos, FloorProtos} :
             \E n \in 1..MaxOutlierTx : \E f \in [1..n -> protos] : Dashboard(Numbered(f))
       \/ \E n \in 1..MaxMonthTx : \E f \in [1..n -> MonthProtos] : Dashboard(Numbered(f))
    /\ env = February2024

NextOutliers ==
    \/ RenderAlertsAnomalies
    \/ RenderRiskLeakageDetection
    \/ RenderSmartAnalytics
    \/ RenderSpendingXRay

SpecOutliers == InitOutliers /\ [][NextOutliers]_vars

RenderRecurringPaymentFinder ==
    /\ view' = [op |-> "RecurringPaymentFinder",
                recurringPayments |-> recurringPayments(data, env.today, env.tz)]
    /\ UNCHANGED <<appVars, env>>

RenderBehaviorInsights ==
    /\ view' = [op |-> "BehaviorInsights", subscriptions |-> subscriptions(data),
                insights |-> SubscriptionInsights(data)]
    /\ UNCHANGED <<appVars, env>>

MaxPayments == 3

\* Charges on first and last days of three consecutive months
PaymentProtos ==
    [date : {<<2025, 1, 1>>, <<2025, 1, 31>>, <<2025, 2, 28>>, <<2025, 3, 1>>,
             <<2025, 3, 31>>},
     merchant : {"Netflix", "netflix ", "Jio"}, amount : {100, 120},
     category : {"Entertainment"}]

\* the morning (UTC) of 2025-04-20, in New York (UTC-5) and in London
PaymentEnvs == [today : {DateOf(<<2025, 4, 20>>) + 10 * 60}, tz : {-300, 0}]

InitRecurring ==
    /\ \E n \in 1..MaxPayments : \E f \in [1..n -> PaymentProtos] : Dashboard(Numbered(f))
    /\ env \in PaymentEnvs

NextRecurring ==
    \/ RenderRecurringPaymentFinder
    \/ RenderBehaviorInsights

SpecRecurring == InitRecurring /\ [][NextRecurring]_vars

-----------------------------------------------------------------------------
(* exportToCSV.  Here the text fields of a transaction and the file's text
   are sequences of characters. *)

Quote == "\""

DigitChars == <<"0", "1", "2", "3", "4", "5", "6", "7", "8", "9">>

RECURSIVE Digits(_)
\* the decimal digits of n >= 0
Digits(n) ==
    IF n < 10 THEN <<DigitChars[n + 1]>>
    ELSE Append(Digits(n \div 10), DigitChars[(n % 10) + 1])

\* amount.toFixed(2) of a whole amount, as text
ToFixed2Text(a) ==
    (IF a < 0 THEN <<"-">> \o Digits(-a) ELSE Digits(a)) \o <<".", "0", "0">>

RECURSIVE EscapeFirstQuote(_)
\* s.replace('"', '""'): the first quote only
EscapeFirstQuote(s) ==
    IF s = << >> THEN << >>
    ELSE IF Head(s) = Quote THEN <<Quote, Quote>> \o Tail(s)
    ELSE <<Head(s)>> \o EscapeFirstQuote(Tail(s))

RECURSIVE EscapeQuotes(_)
\* s.replace(/"/g, '""')
EscapeQuotes(s) ==
    IF s = << >> THEN << >>
    ELSE (IF Head(s) = Quote THEN <<Quote, Quote>> ELSE <<Head(s)>>)
             \o EscapeQuotes(Tail(s))

\* `"${...}"`
Quoted(s) == <<Quote>> \o EscapeQuotes(s) \o <<Quote>>

RECURSIVE Join(_, _)
\* parts.join(sep)
Join(parts, sep) ==
    IF parts = << >> THEN << >>
    ELSE IF Len(parts) = 1 THEN parts[1]
    ELSE parts[1] \o <<sep>> \o Join(Tail(parts), sep)

headers ==
    << <<"D", "a", "t", "e">>,
       <<"M", "e", "r", "c", "h", "a", "n", "t">>,
       <<"A", "m", "o", "u", "n", "t">>,
       <<"C", "a", "t", "e", "g", "o", "r", "y">>,
       <<"I", "s", " ", "R", "e", "c", "u", "r", "r", "i", "n", "g">> >>

\* the row of a transaction
CsvRow(t) ==
    << Quoted(t.date), Quoted(t.merchant), ToFixed2Text(t.amount), Quoted(t.category),
       IF t.isRecurring THEN <<"Y", "e", "s">> ELSE <<"N", "o">> >>

csvContent(txs) ==
    Join(<<Join(headers, ",")>> \o [k \in 1..Len(txs) |-> Join(CsvRow(txs[k]), ",")],
         "\n")

\* exportToCSV(data): nothing is downloaded when there is no data
exportToCSV ==
    /\ view' = IF Len(data) = 0
               THEN [op |-> "exportToCSV", downloaded |-> FALSE]
               ELSE [op |-> "exportToCSV", downloaded |-> TRUE,
                     csvContent |-> csvContent(data)]
    /\ UNCHANGED <<appVars, env>>

MaxFieldLen == 2

MaxCsvRows == 2

\* the characters a field is made of: a letter, a comma and a double quote
FieldChars == {"a", ",", Quote}

\* the texts of at most n characters
Texts(n) == UNION {[1..len -> FieldChars] : len \in 0..n}

\* Row k of the export: any merchant name, a date holding a comma and a
\* category holding a quote; the first row is a recurring charge
CsvTransaction(k, merchant) ==
    [id |-> <<"tx", k>>, date |-> <<"1", ",">>, merchant |-> merchant,
     amount |-> IF k = 1 THEN 1299 ELSE -5, category |-> <<Quote, "a">>,
     isRecurring |-> (k = 1)]

InitCsv ==
    /\ \E n \in 0..MaxCsvRows : \E f \in [1..n -> Texts(MaxFieldLen)] :
          Dashboard([k \in 1..n |-> CsvTransaction(k, f[k])])
    /\ env = UTC

NextCsv == exportToCSV

SpecCsv == InitCsv /\ [][NextCsv]_vars

(* A standard CSV reader: fields separated by commas, rows by line feeds; a
   field that starts with a double quote runs to its closing quote, and a
   doubled quote inside it stands for one quote. *)

RECURSIVE Unescape(_)
\* the text of a quoted field: a doubled quote stands for one quote
Unescape(s) ==
    IF s = << >> THEN << >>
    ELSE IF Len(s) >= 2 /\ s[1] = Quote /\ s[2] = Quote
         THEN <<Quote>> \o Unescape(SubSeq(s, 3, Len(s)))
         ELSE <<Head(s)>> \o Unescape(Tail(s))

RECURSIVE SeparatorFrom(_, _)
\* the position of the separator (or the end of the text) from position i on
SeparatorFrom(text, i) ==
    IF i > Len(text) \/ text[i] \in {",", "\n"} THEN i
    ELSE SeparatorFrom(text, i + 1)

RECURSIVE ClosingQuote(_, _)
\* the closing quote of a quoted field, sought from position j on: the first
\* quote that is not the first half of a doubled one (the end of the text if none)
ClosingQuote(text, j) ==
    IF j > Len(text) THEN j
    ELSE IF text[j] # Quote THEN ClosingQuote(text, j + 1)
    ELSE IF j < Len(text) /\ text[j + 1] = Quote THEN ClosingQuote(text, j + 2)
    ELSE j

\* the field that starts at position i, and the position of what ends it
ReadField(text, i) ==
    IF i <= Len(text) /\ text[i] = Quote
    THEN LET close == ClosingQuote(text, i + 1)
             end == IF close >= Len(text) THEN Len(text) + 1
                    ELSE SeparatorFrom(text, close + 1)
         IN [field |-> Unescape(SubSeq(text, i + 1, close - 1))
                          \o SubSeq(text, close + 1, end - 1),
             end |-> end]
    ELSE LET end == SeparatorFrom(text, i)
         IN [field |-> SubSeq(text, i, end - 1), end |-> end]

RECURSIVE ReadCsv(_, _, _)
\* reads the fields of text from position i on into the last row of rows
ReadCsv(text, i, rows) ==
    LET read == ReadField(text, i)
        added == [rows EXCEPT ![Len(rows)] = Append(rows[Len(rows)], read.field)]
    IN IF read.end > Len(text) THEN added
       ELSE IF text[read.end] = "," THEN ReadCsv(text, read.end + 1, added)
       ELSE ReadCsv(text, read.end + 1, Append(added, << >>))

ParseCsv(text) == ReadCsv(text, 1, << << >> >>)

\* C9: reading the exported text with a standard CSV reader yields the header
\* row and then one row of five fields per transaction, in order, whose date,
\* merchant and category fields are the transaction's strings.
C9_CsvRoundTrip ==
    (view.op = "exportToCSV" /\ view.downloaded) =>
        LET rows == ParseCsv(view.csvContent)
        IN /\ Len(rows) = Len(data) + 1
           /\ rows[1] = headers
           /\ \A k \in 1..Len(data) :
                 /\ Len(rows[k + 1]) = 5
                 /\ rows[k + 1][1] = data[k].date
                 /\ rows[k + 1][2] = data[k].merchant
                 /\ rows[k + 1][4] = data[k].category

\* two rows are exported, one of a merchant whose name is a quote and a comma
C9_Witness ==
    /\ view.op = "exportToCSV"
    /\ view.downloaded
    /\ Len(data) = 2
    /\ data[2].merchant = <<Quote, ",">>
    /\ ParseCsv(view.csvContent)[3][2] = <<Quote, ",">>

-----------------------------------------------------------------------------
(* CategoryDistribution and MerchantBreakdown *)

\* categories: one bucket per category, largest amount first
categories(txs) ==
    LET expenses == Debits(txs)
        totalSpend == Sum(Amounts(expenses))
        names == FirstOccurrences([k \in 1..Len(expenses) |-> expenses[k].category])
        Bucket(name) == SelectSeq(expenses, LAMBDA t : t.category = name)
    IN SortBy([k \in 1..Len(names) |->
                  [name |-> names[k],
                   amount |-> Accumulated(Bucket(names[k])),
                   percentage |-> Percentage(Accumulated(Bucket(names[k])), totalSpend),
                   count |-> Len(Bucket(names[k]))]],
              LAMBDA a, b : b.amount - a.amount < 0)

\* the merchant buckets as the Map holds them, in insertion order
merchantsUnsorted(txs) ==
    LET expenses == Debits(txs)
        totalSpend == Sum(Amounts(expenses))
        names == FirstOccurrences([k \in 1..Len(expenses) |-> expenses[k].merchant])
        Bucket(name) == SelectSeq(expenses, LAMBDA t : t.merchant = name)
    IN [k \in 1..Len(names) |->
          [name |-> names[k],
           amount |-> Accumulated(Bucket(names[k])),
           count |-> Len(Bucket(names[k])),
           percentage |-> Percentage(Accumulated(Bucket(names[k])), totalSpend),
           category |-> Bucket(names[k])[1].category]]

\* merchants: one bucket per merchant name, largest amount first
merchants(txs) ==
    LET expenses == Debits(txs)
        totalSpend == Sum(Amounts(expenses))
        names == FirstOccurrences([k \in 1..Len(expenses) |-> expenses[k].merchant])
        Bucket(name) == SelectSeq(expenses, LAMBDA t : t.merchant = name)
    IN SortBy([k \in 1..Len(names) |->
                  [name |-> names[k],
                   amount |-> Accumulated(Bucket(names[k])),
                   count |-> Len(Bucket(names[k])),
                   percentage |-> Percentage(Accumulated(Bucket(names[k])), totalSpend),
                   category |-> Bucket(names[k])[1].category]],
              LAMBDA a, b : b.amount - a.amount < 0)

RenderCategoryDistribution ==
    /\ view' = [op |-> "CategoryDistribution", totalSpend |-> Sum(Amounts(Debits(data))),
                buckets |-> categories(data)]
    /\ UNCHANGED <<appVars, env>>

RenderMerchantBreakdown ==
    /\ view' = [op |-> "MerchantBreakdown", totalSpend |-> Sum(Amounts(Debits(data))),
                buckets |-> merchants(data)]
    /\ UNCHANGED <<appVars, env>>

MaxBucketTx == 3

\* Expenses, a free entry and a refund, of three merchant names in two categories
BucketProtos ==
    [date : {<<2024, 1, 15>>}, merchant : {"Netflix", "NETFLIX", "Uber"},
     amount : {100, 250, 0, -50}, category : {"Entertainment", "Transport"}]

MaxWideTx == 11

WideMerchants ==
    <<"Amazon", "Swiggy", "Zomato", "Uber", "Ola", "Netflix", "Jio", "Airtel", "IRCTC",
      "Flipkart", "Myntra", "BigBasket">>

WideCategories ==
    <<"Shopping", "Food", "Dining", "Transport", "Taxi", "Entertainment", "Telecom",
      "Broadband", "Travel", "Electronics", "Fashion", "Groceries">>

\* Expenses of n merchants in n categories, n above the five categories and
\* up to above the ten merchants SpendingXRay shows
WideTx(amounts) ==
    [k \in DOMAIN amounts |->
        [date |-> <<2024, 1, 15>>, merchant |-> WideMerchants[k],
         amount |-> amounts[k], category |-> WideCategories[k]]]

InitBuckets ==
    /\ \/ \E n \in 1..MaxBucketTx : \E f \in [1..n -> BucketProtos] : Dashboard(Numbered(f))
       \/ \E n \in 6..MaxWideTx : \E amounts \in [1..n -> {100, 250}] :
             Dashboard(Numbered(WideTx(amounts)))
    /\ env = UTC

NextBuckets ==
    \/ RenderCategoryDistribution
    \/ RenderMerchantBreakdown
    \/ RenderSpendingXRay

SpecBuckets == InitBuckets /\ [][NextBuckets]_vars

\* the percentages, fractions of one denominator, add up to 100
PercentagesSumTo100(buckets) ==
    /\ \A k \in 1..Len(buckets) :
          buckets[k].percentage[2] = buckets[1].percentage[2] /\ buckets[k].percentage[2] > 0
    /\ Sum([k \in 1..Len(buckets) |-> buckets[k].percentage[1]])
          = 100 * buckets[1].percentage[2]

NoRefunds ==
    /\ \E k \in 1..Len(data) : data[k].amount > 0
    /\ \A k \in 1..Len(data) : data[k].amount >= 0

\* C10: with at least one positive amount and no negative one, the percentages
\* of the category buckets add up to 100, and so do those of the merchant
\* buckets (in exact arithmetic, which the tolerance of the claim allows for).
C10_PercentagesSumTo100 ==
    (view.op \in {"CategoryDistribution", "MerchantBreakdown"} /\ NoRefunds)
        => Len(view.buckets) >= 1 /\ PercentagesSumTo100(view.buckets)

\* three expenses in two merchant buckets, one of them holding two
C10_Witness ==
    /\ view.op = "MerchantBreakdown"
    /\ NoRefunds
    /\ Len(data) = 3
    /\ Len(view.buckets) = 2
    /\ view.buckets[1].count = 2
    /\ PercentagesSumTo100(view.buckets)

\* the keys of the transactions txs
KeysOf(txs, Key(_)) == {Key(txs[k]) : k \in 1..Len(txs)}

\* the sum of the amounts of the transactions of txs with the key
TotalOf(txs, Key(_), key) == Sum(Amounts(SelectSeq(txs, LAMBDA t : Key(t) = key)))

\* buckets holds one bucket for each key of txs, or for the limit largest
\* when there are more, each with the sum of the amounts of the transactions
\* with its key, the largest total first
BucketsOf(buckets, txs, Key(_), limit) ==
    /\ Len(buckets) = IF Cardinality(KeysOf(txs, Key)) < limit
                      THEN Cardinality(KeysOf(txs, Key)) ELSE limit
    /\ \A i, j \in 1..Len(buckets) : i # j => buckets[i].name # buckets[j].name
    /\ \A k \in 1..Len(buckets) :
          /\ buckets[k].name \in KeysOf(txs, Key)
          /\ buckets[k].amount = TotalOf(txs, Key, buckets[k].name)
    /\ \A k \in 1..(Len(buckets) - 1) : buckets[k].amount >= buckets[k + 1].amount
    /\ \A key \in KeysOf(txs, Key) :
          (\A k \in 1..Len(buckets) : buckets[k].name # key)
              => TotalOf(txs, Key, key) <= buckets[Len(buckets)].amount

CategoryOf(t) == t.category

MerchantOf(t) == t.merchant

TopBucketsTruncated ==
    /\ view.op = "SpendingXRay"
    /\ Len(data) = 11
    /\ Len(view.topCategories) = 5
    /\ Len(view.topMerchants) = 10

-----------------------------------------------------------------------------
(* Properties of the upload state machine *)

\* The requests of a run for file f, in the order they were made
RequestsFor(run, f) == SelectSeq(run.log, LAMBDA e : e.file = f)

\* the parse requests that have been issued and have not settled
RequestsInFlight ==
    {r \in ActiveRuns : runs[r].log[Len(runs[r].log)].outcome = "pending"}

\* C4: files are processed sequentially: at every moment at most one parse
\* request is in flight.
C4_AtMostOneRequestInFlight == Cardinality(RequestsInFlight) <= 1

\* a failure message that contains 'password', whatever the case of its letters
MentionsPassword(outcome) == outcome \in {"Incorrect Password"}

\* C5: while processing files with a password, each file is requested at
\* most twice: first with the password; a second time, without password,
\* exactly when the first attempt failed with a message containing
\* 'password'; never a third time.
C5_SingleFallbackRetry ==
    \A r \in ActiveRuns :
      runs[r].kind = "password" =>
        \A k \in 1..Len(runs[r].files) :
          LET reqs == RequestsFor(runs[r], runs[r].files[k])
          IN /\ Len(reqs) <= 2
             /\ (k <= runs[r].i) = (Len(reqs) >= 1)
             /\ Len(reqs) >= 1 => reqs[1].password = runs[r].password
             /\ Len(reqs) = 2 => /\ reqs[2].password = NoPassword
                                 /\ MentionsPassword(reqs[1].outcome)
             /\ Len(reqs) = 1 => ~MentionsPassword(reqs[1].outcome)

\* C5 witness: a file has been requested with the password, failed with a
\* password error and is being requested again without password
C5_Witness ==
    \E r \in ActiveRuns :
      /\ runs[r].kind = "password"
      /\ Len(RequestsFor(runs[r], runs[r].files[1])) = 2
      /\ runs[r].i = 2

\* the files named in the skipped-files list
SkippedNames(skipped) == [k \in 1..Len(skipped) |-> skipped[k][1]]

\* run r ends in this step with the upload complete
Completes(r) ==
    /\ runs[r].status = "active"
    /\ runs'[r].status = "done"
    /\ runs'[r].outcome \in {"empty", "dashboard"}

\* C6: when an upload of several files completes, the skipped-files list shown to the user
\* holds every file whose parsing failed exactly once, and no other file.
C6_SkippedListsFailedFiles ==
    [][\A r \in 1..MaxRuns :
         (Completes(r) /\ Len(runs[r].files) >= 2) =>
             SkippedNames(skippedFiles') = runs'[r].failed]_vars

\* a request of the password-less first pass of run r settles in this step
FirstPassSettles(r) ==
    /\ runs[r].status = "active"
    /\ runs[r].kind = "select"
    /\ runs'[r] # runs[r]

\* the outcome of the request of run r that settles in this step
SettledOutcome(r) ==
    IF runs'[r].status = "done" THEN runs'[r].last.outcome
    ELSE runs'[r].log[Len(runs[r].log)].outcome

\* a processFilesWithPassword run starts in slot r in this step
PasswordRunStarts(r) ==
    /\ runs[r].status # "active"
    /\ runs'[r] # runs[r]
    /\ runs'[r].kind = "password"

\* C7: in the password-less first pass a failure counts as an encrypted-file
\* error exactly when its message contains 'password' (case-insensitive);
\* on the first such failure the pass stops, the selected files become the
\* pending files, the modal opens on the upload screen and no data is set;
\* a submitted password starts the processing of the pending files, each
\* requested with that password.
C7_PasswordPrompt ==
    [][/\ \A r \in 1..MaxRuns :
            FirstPassSettles(r) =>
              /\ (runs'[r].status = "done" /\ runs'[r].outcome = "needsPassword")
                    = MentionsPassword(SettledOutcome(r))
              /\ MentionsPassword(SettledOutcome(r)) =>
                    /\ pendingFilesRef' = runs[r].files
                    /\ isPasswordModalOpen'
                    /\ route' = "/upload"
                    /\ data' = data
       /\ \A r \in 1..MaxRuns :
            PasswordRunStarts(r) =>
              /\ isPasswordModalOpen /\ ~isPasswordModalOpen'
              /\ runs'[r].files = pendingFilesRef
              /\ runs'[r].status = "active" =>
                    /\ runs'[r].password \in Passwords
                    /\ runs'[r].log = << [file |-> pendingFilesRef[1],
                                          password |-> runs'[r].password,
                                          outcome |-> "pending",
                                          transactions |-> << >>] >>
       /\ \A r \in 1..MaxRuns :
            (Completes(r) /\ runs[r].kind = "password") =>
              /\ runs[r].i = Len(runs[r].files)
              /\ \A k \in 1..Len(runs[r].files) :
                   RequestsFor(runs[r], runs[r].files[k])[1].password = runs[r].password
      ]_vars

\* C7 witness: the first pass hit a password error on the second file, the
\* modal is open on the upload screen and both files are pending
C7_Witness ==
    /\ isPasswordModalOpen
    /\ route = "/upload"
    /\ pendingFilesRef = Selection(2)
    /\ \E r \in 1..MaxRuns :
         /\ runs[r].status = "done"
         /\ runs[r].outcome = "needsPassword"
         /\ runs[r].last.file = "b.pdf"
         /\ runs[r].last.outcome = "Incorrect Password"

\* C8: a processing run still in progress when the 60 s deadline after its
\* start expires is reset to the upload state (isProcessing false, progress
\* cleared, route /upload, the timeout error set); a run that finishes before
\* the deadline cancels the timer and no timeout error is set for it.
\* In state form: as long as a run is in progress and has not timed out, the
\* 60 s timer is armed.
C8_TimeoutResetsToUpload ==
    /\ [](\A r \in ActiveRuns :
            ~runs[r].timedOut => (timer.armed /\ timer.delay = API_TIMEOUT_MS))
    /\ [][/\ (\E r \in ActiveRuns : runs'[r].status = "active" /\ runs'[r].timedOut
                                     /\ ~runs[r].timedOut) =>
               /\ ~isProcessing'
               /\ processingProgress' = NoProgress
               /\ route' = "/upload"
               /\ error' = MsgTimedOut
          /\ \A r \in ActiveRuns :
               (runs'[r].status = "done" /\ ~runs[r].timedOut) =>
                   (~timer'.armed /\ error' # MsgTimedOut)
         ]_vars

-----------------------------------------------------------------------------
(* Properties of the risk and outlier views *)

Abs(x) == IF x < 0 THEN -x ELSE x

\* two charges of the same positive amount, one day apart
ChargedTwice(i, j) ==
    /\ i < j
    /\ data[i].amount = data[j].amount
    /\ data[i].amount > 0
    /\ Abs(DayOf(data[i].date) - DayOf(data[j].date)) = 1

\* the duplicate alerts that list transaction i or transaction j
DuplicateAlertsOf(i, j) ==
    {k \in 1..Len(view.risks) :
        /\ view.risks[k].type = "duplicate"
        /\ \E m \in 1..Len(view.risks[k].transactions) :
              view.risks[k].transactions[m].id \in {data[i].id, data[j].id}}

ExactlyOneAlertOfBoth(i, j) ==
    /\ Cardinality(DuplicateAlertsOf(i, j)) = 1
    /\ \A k \in DuplicateAlertsOf(i, j) :
          view.risks[k].transactions = <<data[i], data[j]>>

\* C1 as stated: two charges with the same merchant name and the same positive
\* amount, one day apart, and no other charge with that merchant name and
\* amount, get exactly one duplicate alert, which lists exactly the two.
C1_SameMerchantNameFlaggedOnce ==
    view.op = "RiskLeakageDetection" =>
        \A i, j \in 1..Len(data) :
            ( /\ ChargedTwice(i, j)
              /\ data[i].merchant = data[j].merchant
              /\ \A k \in 1..Len(data) \ {i, j} :
                    ~(data[k].merchant = data[i].merchant
                      /\ data[k].amount = data[i].amount) )
            => ExactlyOneAlertOfBoth(i, j)

\* the precondition of C1 with the merchant compared in lower case and the
\* amount at two decimals
OnlyPairOfKey(i, j) ==
    /\ ChargedTwice(i, j)
    /\ DupKey(data[i]) = DupKey(data[j])
    /\ \A k \in 1..Len(data) \ {i, j} : DupKey(data[k]) # DupKey(data[i])

\* C1 amended: two charges one day apart whose lower-cased merchant and
\* two-decimal positive amount agree, with no other charge of that merchant
\* and amount so compared, get exactly one duplicate alert, which lists
\* exactly the two transactions.
C1_DuplicatePairFlaggedOnce ==
    view.op = "RiskLeakageDetection" =>
        \A i, j \in 1..Len(data) : OnlyPairOfKey(i, j) => ExactlyOneAlertOfBoth(i, j)

\* a pair under two spellings of the merchant next to an unrelated charge
C1_Witness ==
    /\ view.op = "RiskLeakageDetection"
    /\ Len(data) = 3
    /\ \E i, j \in 1..Len(data) :
          /\ OnlyPairOfKey(i, j)
          /\ data[i].merchant # data[j].merchant
          /\ ExactlyOneAlertOfBoth(i, j)

\* the debits that share a duplicate key
KeyGroup(key) == SelectSeq(Debits(data), LAMBDA t : DupKey(t) = key)

\* the latest date of a group is at most 2 days after its earliest date
WithinTwoDays(group) ==
    \A i, j \in 1..Len(group) : DayOf(group[i].date) - DayOf(group[j].date) <= 2

\* C11: a group of debits of one (merchant, amount) key gets a duplicate alert
\* exactly when it has at least 2 transactions whose dates lie within 2 days,
\* and never more than one alert.
C11_AlertIffTwoWithinWindow ==
    view.op = "RiskLeakageDetection" =>
        \A key \in {DupKey(data[k]) : k \in 1..Len(data)} :
            Cardinality({k \in 1..Len(view.risks) :
                            view.risks[k].type = "duplicate" /\ view.risks[k].id = <<"dup", key>>})
                = IF Len(KeyGroup(key)) >= 2 /\ WithinTwoDays(KeyGroup(key)) THEN 1 ELSE 0

\* n^2 times the population variance of the values: the squared differences
\* of all pairs
ScaledVariance(values) ==
    Sum([i \in 1..Len(values) |->
            Sum([j \in 1..Len(values) |->
                    IF i < j THEN Square(values[i] - values[j]) ELSE 0])])

\* the value lies beyond mean + k sigma of the values: value - mean is
\* positive and its square exceeds k^2 times the variance
Beyond(k, value, values) ==
    /\ Len(values) * value > Sum(values)
    /\ Square(Len(values) * value - Sum(values)) > Square(k) * ScaledVariance(values)

\* the debits of data that are beyond mean + 2 sigma or above the floor
HighValueDebits ==
    SelectSeq(Debits(data), LAMBDA t :
        Beyond(2, t.amount, Amounts(Debits(data))) \/ t.amount > 10000)

C2_FlagsExactlyThe1000Entry ==
    (view.op \in {"AlertsAnomalies", "RiskLeakageDetection", "SmartAnalytics"}
        /\ Amounts(data) = <<100, 100, 100, 100, 1000>>)
        => Amounts(view.outliers) = <<1000>>

-----------------------------------------------------------------------------
(* Properties of the recurring payments view *)

MonthIndex(date) == date[1] * 12 + date[2] - 1

\* the day-of-month day in the month with index mi, or the month's last day
DayInMonth(mi, day) ==
    LET y == mi \div 12
        m == (mi % 12) + 1
    IN <<y, m, IF day > DaysInMonth(y, m) THEN DaysInMonth(y, m) ELSE day>>

\* the charges of a merchant, however its name is capitalised or padded
ChargesOf(key) == SelectSeq(data, LAMBDA t : t.amount > 0 /\ MerchantKey(t) = key)

\* charged once in each of several consecutive calendar months
ChargedMonthly(charges) ==
    LET months == {MonthIndex(charges[k].date) : k \in 1..Len(charges)}
    IN /\ Len(charges) >= 2
       /\ Cardinality(months) = Len(charges)
       /\ \A m1, m2 \in months : m1 - m2 < Len(charges)

\* every amount within 10% of the mean amount
WithinTenPercent(charges) ==
    \A k \in 1..Len(charges) :
        10 * Abs(Len(charges) * charges[k].amount - Sum(Amounts(charges)))
            < Sum(Amounts(charges))

LastPaymentOf(charges) ==
    charges[CHOOSE k \in 1..Len(charges) :
                \A j \in 1..Len(charges) : ~DateBefore(charges[k].date, charges[j].date)].date

\* The renewal date lies k >= 1 months after the last payment, the renewals of
\* the months skipped are not after today and the renewal itself is not
\* before today (today's date itself, in UTC or in local time, counts either way).
InCorrectMonth(nextRenewalDate, lastPaymentDate) ==
    LET last == MonthIndex(lastPaymentDate)
        k == MonthIndex(nextRenewalDate) - last
        utcDay == FloorDiv(env.today, MinutesPerDay)
        localDay == LocalDay(env.today, env.tz)
    IN /\ k >= 1
       /\ \A j \in 1..(k - 1) :
             \/ DayOf(DayInMonth(last + j, lastPaymentDate[3])) <= utcDay
             \/ DayOf(DayInMonth(last + j, lastPaymentDate[3])) <= localDay
       /\ \/ DayOf(DayInMonth(last + k, lastPaymentDate[3])) >= utcDay
          \/ DayOf(DayInMonth(last + k, lastPaymentDate[3])) >= localDay

\* C3: a merchant charged once in each of several consecutive calendar months,
\* every amount within 10% of its mean, is reported with frequency "monthly",
\* and its next renewal lies in the correct calendar month: one monthly step
\* after the last payment, advanced by whole months only as far as needed not
\* to be in the past.
C3_MonthlyRenewalInCorrectMonth ==
    view.op = "RecurringPaymentFinder" =>
        \A key \in {MerchantKey(data[k]) : k \in 1..Len(data)} :
            (ChargedMonthly(ChargesOf(key)) /\ WithinTenPercent(ChargesOf(key)))
            => \E k \in 1..Len(view.recurringPayments) :
                  LET p == view.recurringPayments[k]
                  IN /\ p.id = key
                     /\ p.frequency = "monthly"
                     /\ InCorrectMonth(p.nextRenewalDate, LastPaymentOf(ChargesOf(key)))

\* the gaps in days between the consecutive charges of a merchant
GapsOf(charges) ==
    LET days == SortBy([k \in 1..Len(charges) |-> DayOf(charges[k].date)],
                       LAMBDA a, b : a < b)
    IN [k \in 1..(Len(days) - 1) |-> days[k + 1] - days[k]]

\* the band of a gap: weekly up to 10 days, monthly up to 45, quarterly up to
\* 120, yearly beyond
BandOf(gap) ==
    IF gap <= 10 THEN "weekly"
    ELSE IF gap <= 45 THEN "monthly"
    ELSE IF gap <= 120 THEN "quarterly"
    ELSE "yearly"

\* the gaps cluster into a band: all of them lie in the same band
GapsInOneBand(charges) ==
    \A i, j \in 1..Len(GapsOf(charges)) :
        BandOf(GapsOf(charges)[i]) = BandOf(GapsOf(charges)[j])

\* every amount deviates from the mean by less than percent %
WithinPercent(charges, percent) ==
    \A k \in 1..Len(charges) :
        100 * Abs(Len(charges) * charges[k].amount - Sum(Amounts(charges)))
            < percent * Sum(Amounts(charges))

\* the merchant is reported by the view
Reported(key) ==
    IF view.op = "RecurringPaymentFinder"
    THEN \E k \in 1..Len(view.recurringPayments) : view.recurringPayments[k].id = key
    ELSE \E k \in 1..Len(view.subscriptions) :
            view.subscriptions[k].merchant = Capitalize(key)

\* C12: a merchant is reported as recurring exactly when it has at least 2
\* occurrences, every amount is within the bound of the mean (10% in
\* RecurringPaymentFinder, 15% in BehaviorInsights) and its day gaps cluster
\* into one band.
C12_RecurringIffThreeConditions ==
    view.op \in {"RecurringPaymentFinder", "BehaviorInsights"} =>
        \A key \in {MerchantKey(data[k]) : k \in 1..Len(data)} :
            Reported(key)
                <=> /\ Len(ChargesOf(key)) >= 2
                    /\ WithinPercent(ChargesOf(key),
                                     IF view.op = "RecurringPaymentFinder" THEN 10 ELSE 15)
                    /\ GapsInOneBand(ChargesOf(key))

-----------------------------------------------------------------------------
(* Dashboard: "Generate Insight".  analyzeSpending exists in two versions, the
   Groq one of geminiService.ts and the earlier OpenRouter one; env says which
   one the Dashboard calls and whether its API key is set.  A Markdown string
   is the sequence of its lines. *)

MaxInsightTx == 2

Services == {"groq", "openrouter"}

LlmText == "Your spending is accelerating."

\* useState<string | null>(null)
NoInsight == << >>

\* (the name of the variable is in backquotes in the source)
ApiKeyMissing(service) ==
    IF service = "groq"
    THEN <<"## API Key Missing",
           "Please provide GROQ_API_KEY in your environment variables to generate AI insights.">>
    ELSE <<"## API Key Missing",
           "Please provide a valid OpenRouter API Key in the environment to generate insights.">>

NoResponse == <<"## Analysis Failed", "No response from AI service. Please try again.">>

ApiError ==
    <<"## Analysis Failed",
      "Unable to generate insights due to an API error. Please try again later.">>

NoInsights == <<"No insights could be generated at this time.">>

\* What the LLM call comes back with: the request fails, the server answers
\* with an error status, the body has no choices, the choices are empty, or
\* the first choice has a content
Replies ==
    {[kind |-> k, content |-> ""] :
        k \in {"rejected", "http error", "no choices", "no choice"}}
    \cup {[kind |-> "content", content |-> c] : c \in {"", LlmText}}

NoReply == [kind |-> "none", content |-> ""]

\* the call throws inside the try block: the request rejects, the status is
\* not ok (the Groq SDK throws for it, the OpenRouter version throws itself),
\* or choices[0] is read from undefined
Throws(reply) == reply.kind \in {"rejected", "http error", "no choices"}

\* choices[0]?.message?.content
Content(reply) == IF reply.kind = "content" THEN reply.content ELSE ""

\* analyzeSpending from the answer of the LLM call on
analyzeSpending(service, reply) ==
    IF Throws(reply) THEN ApiError
    ELSE IF Content(reply) # "" THEN <<Content(reply)>>
    ELSE IF service = "groq" THEN NoResponse
    ELSE NoInsights

\* [...data].sort((a, b) => b.amount - a.amount).slice(0, 10)
topTx(txs) == Slice(SortBy(txs, LAMBDA a, b : a.amount > b.amount), 10)

NoCall == [state |-> "idle", topTx |-> << >>, reply |-> NoReply, result |-> NoInsight]

\* the click on Generate Insight, up to the first await that has to wait:
\* without an API key analyzeSpending returns at once
handleAiAnalysis ==
    /\ view.op = "Dashboard"
    /\ ~view.loadingAi                  \* disabled={loadingAi}
    /\ view.call.state = "idle"
    /\ view' = [view EXCEPT
                  !.loadingAi = TRUE,
                  !.call = IF env.apiKey
                           THEN [state |-> "awaiting", topTx |-> topTx(data),
                                 reply |-> NoReply, result |-> NoInsight]
                           ELSE [state |-> "resolved", topTx |-> topTx(data),
                                 reply |-> NoReply,
                                 result |-> ApiKeyMissing(env.service)]]
    /\ UNCHANGED <<appVars, env>>

\* the LLM call settles and analyzeSpending returns
LlmSettles(reply) ==
    /\ view.op = "Dashboard"
    /\ view.call.state = "awaiting"
    /\ view' = [view EXCEPT
                  !.call = [@ EXCEPT !.state = "resolved", !.reply = reply,
                                     !.result = analyzeSpending(env.service, reply)]]
    /\ UNCHANGED <<appVars, env>>

\* handleAiAnalysis after its await
handleAiAnalysisResumes ==
    /\ view.op = "Dashboard"
    /\ view.call.state = "resolved"
    /\ view' = [view EXCEPT !.aiInsight = view.call.result,
                            !.loadingAi = FALSE,
                            !.call = NoCall]
    /\ UNCHANGED <<appVars, env>>

InsightProtos ==
    [date : {<<2024, 1, 15>>}, merchant : {"Netflix"}, amount : {100, 250},
     category : {"Entertainment"}]

InitInsight ==
    /\ \E n \in 1..MaxInsightTx : \E f \in [1..n -> InsightProtos] :
          /\ InitUi
          /\ route = "/dashboard"
          /\ data = Numbered(f)
    /\ view = [op |-> "Dashboard", loadingAi |-> FALSE, aiInsight |-> NoInsight,
               call |-> NoCall]
    /\ env \in [service : Services, apiKey : BOOLEAN]

NextInsight ==
    \/ handleAiAnalysis
    \/ \E reply \in Replies : LlmSettles(reply)
    \/ handleAiAnalysisResumes

SpecInsight == InitInsight /\ [][NextInsight]_vars

\* the LLM call settles, and the continuation of an async function runs
SpecInsightFair ==
    /\ SpecInsight
    /\ WF_vars(\E reply \in Replies : LlmSettles(reply))
    /\ WF_vars(handleAiAnalysisResumes)

\* C14: analyzeSpending always resolves, and when the LLM call throws or
\* returns empty text it resolves to a Markdown string that begins with
\* "## Analysis Failed".
C14_FailureGivesAnalysisFailed ==
    (view.op = "Dashboard" /\ view.call.state = "resolved"
        /\ view.call.reply # NoReply
        /\ (Throws(view.call.reply) \/ Content(view.call.reply) = ""))
        => Head(view.call.result) = "## Analysis Failed"

\* after a click on Generate Insight loadingAi returns to false
C14_LoadingEventuallyEnds ==
    (view.op = "Dashboard" /\ view.loadingAi) ~> (view.op = "Dashboard" /\ ~view.loadingAi)

-----------------------------------------------------------------------------
(* parseStatementFile on any response body.  There are two versions: the
   current one (frontend/services/parsingService.ts) filters the items and
   applies defaults, the earlier one (services/parsingService.ts) maps every
   item as it is.  A JSON item is null or an object; an absent (or empty)
   date is << >>, an absent (or empty) merchant or category is "". *)

MaxItems == 2

ParseVersions == {"current", "earlier"}

JsonNull == [json |-> "null"]

\* the amount of an item: absent, null, a number, a numeric string, or a
\* string that is no number; value is Number(amount) where that is a number
ItemAmounts ==
    { [kind |-> "undefined", value |-> 0], [kind |-> "null", value |-> 0],
      Num(100), [kind |-> "string", value |-> 250], [kind |-> "nan", value |-> 0] }

Items ==
    {JsonNull}
    \cup [date : {<< >>, <<2024, 1, 15>>}, merchant : {"", "Netflix"},
          amount : ItemAmounts, category : {"", "Food"}]

\* what response.json() gives: an array of items, or something else
Bodies ==
    {[array |-> FALSE, items |-> << >>]}
    \cup {[array |-> TRUE, items |-> f] : f \in UNION {[1..n -> Items] : n \in 0..MaxItems}}

\* Number(item.amount): NaN for undefined and for text that is no number
ToNumber(amount) ==
    IF amount.kind \in {"undefined", "nan"} THEN [kind |-> "nan", value |-> 0]
    ELSE Num(amount.value)

MsgInvalidFormat == "Invalid response format: expected an array"
MsgTypeError == "Cannot read properties of null"

\* the current version on the body of an ok response
parseCurrent(rawData) ==
    IF ~rawData.array THEN [ok |-> FALSE, message |-> MsgInvalidFormat]
    ELSE LET settled == parseStatementFile([ok |-> TRUE, body |-> rawData.items])
         IN [ok |-> TRUE,
             transactions |-> [k \in 1..Len(settled.transactions) |->
                                  [settled.transactions[k] EXCEPT !.amount = Num(@)]]]

\* the earlier version: no filter, no defaults; reading a field of null throws
parseEarlier(rawData) ==
    IF ~rawData.array THEN [ok |-> TRUE, transactions |-> << >>]
    ELSE IF \E k \in 1..Len(rawData.items) : rawData.items[k] = JsonNull
    THEN [ok |-> FALSE, message |-> MsgTypeError]
    ELSE [ok |-> TRUE,
          transactions |-> [k \in 1..Len(rawData.items) |->
              [id |-> <<"parsed-tx", k - 1>>,
               date |-> rawData.items[k].date,
               merchant |-> rawData.items[k].merchant,
               amount |-> ToNumber(rawData.items[k].amount),
               category |-> rawData.items[k].category]]]

\* the server answers ok with the body rawData
ParseBody(rawData) ==
    /\ view = NoView
    /\ view' = [op |-> "parseStatementFile", rawData |-> rawData,
                settled |-> IF env.version = "current" THEN parseCurrent(rawData)
                            ELSE parseEarlier(rawData)]
    /\ UNCHANGED <<appVars, env>>

InitParse ==
    /\ InitUi
    /\ route = "/"
    /\ data = << >>
    /\ view = NoView
    /\ env \in [version : ParseVersions]

NextParse == \E rawData \in Bodies : ParseBody(rawData)

SpecParse == InitParse /\ [][NextParse]_vars

\* the records of the body the claim keeps: non-null, with a date or a
\* merchant, and with an amount that is defined and converts to a number
Kept(items) ==
    SelectSeq(items, LAMBDA item :
        /\ item # JsonNull
        /\ (item.date # << >> \/ item.merchant # "")
        /\ item.amount.kind # "undefined"
        /\ ToNumber(item.amount).kind = "number")

\* C15: for an array body parseStatementFile returns, in the original order,
\* exactly the records that are non-null, have a date or a merchant and have
\* a defined amount that converts to a number; every returned transaction has
\* a numeric amount that is not NaN and a non-empty date, merchant and
\* category; a body that is not an array yields no transactions.
C15_ExactlyTheValidRecords ==
    view.op = "parseStatementFile" =>
        IF view.rawData.array
        THEN LET kept == Kept(view.rawData.items)
             IN /\ view.settled.ok
                /\ Len(view.settled.transactions) = Len(kept)
                /\ \A k \in 1..Len(kept) :
                      LET t == view.settled.transactions[k]
                      IN /\ t.amount = ToNumber(kept[k].amount)
                         /\ t.amount.kind = "number"
                         /\ t.date # << >> /\ t.merchant # "" /\ t.category # ""
                         /\ kept[k].date # << >> => t.date = kept[k].date
                         /\ kept[k].merchant # "" => t.merchant = kept[k].merchant
                         /\ kept[k].category # "" => t.category = kept[k].category
        ELSE view.settled.ok => view.settled.transactions = << >>

\* the same of the current version alone
CurrentVersionKeepsTheValidRecords ==
    env.version = "current" => C15_ExactlyTheValidRecords

-----------------------------------------------------------------------------
(* One call of parseStatementFile against a server that answers when it
   likes, or never.  Three versions are in the repository: the current one
   arms a 120 s timer before the fetch and clears it in finally; an earlier
   one arms a 30 s timer and clears it as soon as the response headers are
   there; the earliest (services/parsingService.ts) has no timer.  Time
   advances in steps of TickMs. *)

PARSE_TIMEOUT_MS == 120000

EARLIER_TIMEOUT_MS == 30000

TickMs == 10000

MaxTicks == 15

TimeoutVersions == {"current", "thirty", "untimed"}

\* setTimeout(() => controller.abort(), ...)
HasTimer(version) == version # "untimed"

TimeoutOf(version) == IF version = "current" THEN PARSE_TIMEOUT_MS ELSE EARLIER_TIMEOUT_MS

\* parseStatementFile up to await fetch(...)
CallParse ==
    /\ view = NoView
    /\ view' = [op |-> "parseStatementFile", phase |-> "fetching", elapsed |-> 0,
                timer |-> HasTimer(env.version), ok |-> FALSE, settled |-> "pending"]
    /\ UNCHANGED <<appVars, env>>

\* time passes; a timer that is due goes off first
Tick ==
    /\ view.op = "parseStatementFile"
    /\ view.phase # "settled" \/ view.timer
    /\ view.elapsed + TickMs <= MaxTicks * TickMs
    /\ view.timer => view.elapsed < TimeoutOf(env.version)
    /\ view' = [view EXCEPT !.elapsed = @ + TickMs]
    /\ UNCHANGED <<appVars, env>>

\* fetch resolves: the status and headers of the response are there
ResponseArrives(ok) ==
    /\ view.op = "parseStatementFile"
    /\ view.phase = "fetching"
    /\ view' = [view EXCEPT !.phase = "reading", !.ok = ok,
                            !.timer = IF env.version = "thirty" THEN FALSE ELSE @]
    /\ UNCHANGED <<appVars, env>>

\* fetch rejects: no connection
FetchFails ==
    /\ view.op = "parseStatementFile"
    /\ view.phase = "fetching"
    /\ view' = [view EXCEPT !.phase = "settled", !.settled = "rejected",
                            !.timer = IF env.version = "current" THEN FALSE ELSE @]
    /\ UNCHANGED <<appVars, env>>

\* response.json() / response.text() resolves and the function returns or
\* throws
BodyArrives ==
    /\ view.op = "parseStatementFile"
    /\ view.phase = "reading"
    /\ view' = [view EXCEPT !.phase = "settled",
                            !.settled = IF view.ok THEN "resolved" ELSE "rejected",
                            !.timer = IF env.version = "current" THEN FALSE ELSE @]
    /\ UNCHANGED <<appVars, env>>

\* the timer goes off: controller.abort() rejects the fetch, or the read of
\* the body, with an AbortError, which the catch block throws on
TimerFires ==
    /\ view.op = "parseStatementFile"
    /\ view.timer
    /\ view.elapsed >= TimeoutOf(env.version)
    /\ view' = [view EXCEPT !.timer = FALSE,
                            !.phase = "settled",
                            !.settled = IF view.phase = "settled" THEN @ ELSE "aborted"]
    /\ UNCHANGED <<appVars, env>>

InitTimeout ==
    /\ InitUi
    /\ route = "/processing"
    /\ data = << >>
    /\ view = NoView
    /\ env \in [version : TimeoutVersions]

NextTimeout ==
    \/ CallParse
    \/ Tick
    \/ \E ok \in BOOLEAN : ResponseArrives(ok)
    \/ FetchFails
    \/ BodyArrives
    \/ TimerFires

SpecTimeout == InitTimeout /\ [][NextTimeout]_vars

\* time passes and a timer that is due goes off; the server owes nothing
SpecTimeoutFair == SpecTimeout /\ WF_vars(Tick) /\ WF_vars(TimerFires)

\* the deadline the claim gives a version
ClaimedDeadline(version) == IF version = "current" THEN 120000 ELSE 30000

\* C16: when the server has not answered within the client-side deadline
\* (120 s in the current version, 30 s in the earlier ones) the request has
\* been aborted and the promise of parseStatementFile is rejected.
C16_AbortedAtDeadline ==
    (view.op = "parseStatementFile" /\ view.phase = "fetching")
        => view.elapsed <= ClaimedDeadline(env.version)

\* every call of parseStatementFile settles
C16_EveryCallSettles ==
    (view.op = "parseStatementFile")
        ~> (view.op = "parseStatementFile" /\ view.phase = "settled")

\* the current version alone: the call settles, by the deadline at the latest
CurrentVersionSettles ==
    (env.version = "current" /\ view.op = "parseStatementFile")
        ~> (view.op = "parseStatementFile" /\ view.phase = "settled"
                /\ view.elapsed <= PARSE_TIMEOUT_MS)

-----------------------------------------------------------------------------
(* The same data rendered at different times: the clock that `new Date()`
   reads advances between two renders of a view. *)

MaxClockTx == 4

MaxClockSteps == 2

ClockStepDays == 15

\* the morning (UTC) of 2025-04-02
ClockStart == [today |-> DateOf(<<2025, 4, 2>>) + 10 * 60, tz |-> 0]

\* Netflix charged on the first and last day of January, Jio first seen on
\* 2025-03-31
ClockProtos ==
    [date : {<<2025, 1, 1>>, <<2025, 1, 31>>}, merchant : {"Netflix"},
     amount : {100, 500}, category : {"Entertainment"}]
    \cup [date : {<<2025, 3, 31>>}, merchant : {"Jio"}, amount : {100, 500},
          category : {"Telecom"}]

\* time passes between two renders
TimePasses ==
    /\ env.today + ClockStepDays * MinutesPerDay
          <= ClockStart.today + MaxClockSteps * ClockStepDays * MinutesPerDay
    /\ env' = [env EXCEPT !.today = @ + ClockStepDays * MinutesPerDay]
    /\ UNCHANGED <<appVars, view>>

InitClock ==
    /\ \E n \in 1..MaxClockTx : \E f \in [1..n -> ClockProtos] : Dashboard(Numbered(f))
    /\ env = ClockStart

NextClock ==
    \/ RenderRecurringPaymentFinder
    \/ RenderRiskLeakageDetection
    \/ TimePasses

SpecClock == InitClock /\ [][NextClock]_vars

\* C18: for the same transaction array a view always computes the same result
\* (same alerts, same recurring payments with the same next-renewal dates and
\* days until renewal), whenever it is evaluated.
C18_SameInputSameResult ==
    [][(view.op = view'.op /\ data' = data) => view' = view]_vars

\* the same of the alerts of RiskLeakageDetection alone
SameInputSameAlerts ==
    [][(view.op = "RiskLeakageDetection" /\ view'.op = "RiskLeakageDetection"
            /\ data' = data) => view'.risks = view.risks]_vars

-----------------------------------------------------------------------------
(* The arrays a view computes with.  A heap maps the reference of an array to
   its elements; filter, map and the spread [...a] make a new array, sort
   orders the array it is called on.  data is the array the view is given. *)

MaxHeapTx == 3

DataRef == <<"data">>

\* the heap of a view that has been handed txs
HeapOf(txs) == (DataRef :> txs)

\* const dst = src.filter(Keep)
ArrayFilter(heap, src, dst, Keep(_)) == (dst :> SelectSeq(heap[src], Keep)) @@ heap

\* const dst = [...src]
ArraySpread(heap, src, dst) == (dst :> heap[src]) @@ heap

\* ref.sort(compare)
ArraySort(heap, ref, Before(_, _)) == [heap EXCEPT ![ref] = SortBy(heap[ref], Before)]

\* existing.dates.push(t.date) for every debit: one dates array per merchant
RECURSIVE PushDates(_, _)
PushDates(heap, debits) ==
    IF debits = << >> THEN heap
    ELSE LET ref == <<"dates", MerchantKey(Head(debits))>>
             pushed == IF ref \in DOMAIN heap
                       THEN [heap EXCEPT ![ref] = Append(@, Head(debits).date)]
                       ELSE (ref :> <<Head(debits).date>>) @@ heap
         IN PushDates(pushed, Tail(debits))

\* data.dates.sort() for every merchant that passes the two checks
RECURSIVE SortDates(_, _, _)
SortDates(heap, debits, keys) ==
    IF keys = << >> THEN heap
    ELSE LET group == MerchantGroup(debits, Head(keys))
             sorted == IF Len(group) >= 2 /\ isConsistent(Amounts(group))
                       THEN ArraySort(heap, <<"dates", Head(keys)>>,
                                      LAMBDA a, b : DayOf(a) < DayOf(b))
                       ELSE heap
         IN SortDates(sorted, debits, Tail(keys))

\* RecurringPaymentFinder: debits, the merchant map and the sort of its dates
RecurringHeap(txs) ==
    LET filtered == ArrayFilter(HeapOf(txs), DataRef, <<"debits">>, LAMBDA t : t.amount > 0)
        debits == filtered[<<"debits">>]
        keys == FirstOccurrences([k \in 1..Len(debits) |-> MerchantKey(debits[k])])
    IN SortDates(PushDates(filtered, debits), debits, keys)

\* data.sort((a, b) => b.amount - a.amount): the sort without the copy
StatsHeapSortingData(txs) ==
    ArraySort(HeapOf(txs), DataRef, LAMBDA a, b : b.amount - a.amount < 0)

\* Dashboard: sortedByAmt = [...data].sort((a, b) => b.amount - a.amount),
\* and the same for topTx on a click
StatsHeap(txs) ==
    ArraySort(ArraySpread(HeapOf(txs), DataRef, <<"sortedByAmt">>), <<"sortedByAmt">>,
              LAMBDA a, b : b.amount - a.amount < 0)

\* RiskLeakageDetection: sortedDebits = [...debits].sort(by date)
FirstSeenHeap(txs) ==
    LET filtered == ArrayFilter(HeapOf(txs), DataRef, <<"debits">>, LAMBDA t : t.amount > 0)
    IN ArraySort(ArraySpread(filtered, <<"debits">>, <<"sortedDebits">>), <<"sortedDebits">>,
                 LAMBDA a, b : DayOf(a.date) < DayOf(b.date))

\* a view computes its arrays: data is what the computation leaves of it
Compute(op, heap) ==
    /\ view' = [op |-> op, input |-> data, heap |-> heap]
    /\ data' = heap[DataRef]
    /\ UNCHANGED <<route, error, isPasswordModalOpen, processingProgress, skippedFiles,
                   isProcessing, pendingFilesRef, storedPasswordRef, timer, runs, env>>

ComputeRecurringPayments == Compute("recurringPayments", RecurringHeap(data))

ComputeStats == Compute("stats", StatsHeap(data))

ComputeFirstSeen == Compute("merchantFirstSeen", FirstSeenHeap(data))

HeapProtos ==
    [date : {<<2025, 1, 1>>, <<2025, 1, 31>>}, merchant : {"Netflix", "Jio"},
     amount : {100, 250, -50}, category : {"Entertainment"}]

InitHeap ==
    /\ \E n \in 1..MaxHeapTx : \E f \in [1..n -> HeapProtos] : Dashboard(Numbered(f))
    /\ env = UTC

NextHeap ==
    \/ ComputeRecurringPayments
    \/ ComputeStats
    \/ ComputeFirstSeen

SpecHeap == InitHeap /\ [][NextHeap]_vars

\* C19: after a view has been computed the input array holds the same
\* transactions, with the same fields, in the same order as before.
C19_InputUntouched ==
    view.op \in {"recurringPayments", "stats", "merchantFirstSeen"} => data = view.input

\* stats has sorted its copy of an array that was not in descending order of
\* amount, and the array is as it was
C19_Witness ==
    /\ view.op = "stats"
    /\ Len(data) = 3
    /\ data[1].amount < data[2].amount
    /\ view.heap[<<"sortedByAmt">>] # view.input
    /\ data = view.input

-----------------------------------------------------------------------------
(* Dashboard: the KPI stats, and the charts of StandardCharts *)

MaxStatsTx == 3

\* the total of a category over all the transactions of txs
CategoryTotal(txs, name) == Sum(Amounts(SelectSeq(txs, LAMBDA t : t.category = name)))

\* catMap.forEach: the first category, in insertion order, with the largest
\* total above 0, or '' with 0
TopCategory(txs) ==
    LET names == FirstOccurrences([k \in 1..Len(txs) |-> txs[k].category])
        above == {k \in 1..Len(names) : CategoryTotal(txs, names[k]) > 0}
    IN IF above = {} THEN [name |-> "", value |-> 0]
       ELSE LET top == CHOOSE k \in above :
                          \A j \in above :
                              \/ CategoryTotal(txs, names[j]) < CategoryTotal(txs, names[k])
                              \/ (CategoryTotal(txs, names[j]) = CategoryTotal(txs, names[k])
                                    /\ k <= j)
            IN [name |-> names[top], value |-> CategoryTotal(txs, names[top])]

\* stats: burnRate and percentage are kept as fractions
stats(txs) ==
    LET totalSpend == Sum(Amounts(Debits(txs)))
        sortedByAmt == SortBy(txs, LAMBDA a, b : b.amount - a.amount < 0)
        months == {MonthOf(Debits(txs)[k].date) : k \in 1..Len(Debits(txs))}
        monthCount == IF months = {} THEN 1 ELSE Cardinality(months)
    IN [totalSpend |-> totalSpend,
        burnRate |-> <<totalSpend, monthCount * 30>>,
        largestTx |-> sortedByAmt[1],
        topCategory |-> [name |-> TopCategory(txs).name,
                         percentage |-> Percentage(TopCategory(txs).value, totalSpend)]]

\* SpendTreemap: one entry per category, in insertion order
treeData(txs) ==
    LET names == FirstOccurrences([k \in 1..Len(txs) |-> txs[k].category])
    IN [k \in 1..Len(names) |-> [name |-> names[k], value |-> CategoryTotal(txs, names[k])]]

\* new Date(t.date).getDay() in the zone with offset tz: 1970-01-01 was a
\* Thursday
GetDay(date, tz) == (LocalDay(DateOf(date), tz) + 4) % 7

\* WeeklyRadar: the total of each day of the week, Sunday first
radarData(txs, tz) ==
    [day \in 1..7 |->
        Sum(Amounts(SelectSeq(txs, LAMBDA t : GetDay(t.date, tz) = day - 1)))]

RenderDashboard ==
    /\ view' = [op |-> "DashboardStats", stats |-> stats(data),
                radarData |-> radarData(data, env.tz)]
    /\ UNCHANGED <<appVars, env>>

RenderSpendTreemap ==
    /\ view' = [op |-> "SpendTreemap", treeData |-> treeData(data)]
    /\ UNCHANGED <<appVars, env>>

\* Expenses and refunds on a Monday and a Saturday
StatsProtos ==
    [date : {<<2024, 1, 15>>, <<2024, 1, 20>>}, merchant : {"Uber"},
     amount : {100, 250, -50}, category : {"Food", "Transport"}]

InitStats ==
    /\ \E n \in 1..MaxStatsTx : \E f \in [1..n -> StatsProtos] : Dashboard(Numbered(f))
    /\ env \in [today : {DateOf(<<2024, 2, 10>>) + 10 * 60}, tz : {-300, 0}]

NextStats ==
    \/ RenderDashboard
    \/ RenderSpendTreemap

SpecStats == InitStats /\ [][NextStats]_vars

\* the transactions that are no credits or refunds
WithoutRefunds(txs) == SelectSeq(txs, LAMBDA t : t.amount >= 0)

\* the value of the entry of treeData for a category, 0 when it has none
TreeValue(entries, name) ==
    IF \E k \in 1..Len(entries) : entries[k].name = name
    THEN entries[CHOOSE k \in 1..Len(entries) : entries[k].name = name].value
    ELSE 0

\* C20: the transactions with a negative amount change no spend total, no
\* category total, no top-category percentage and no weekday total shown on
\* the dashboard: each is what it is for the data without them.
C20_RefundsChangeNothing ==
    /\ view.op = "DashboardStats" =>
          /\ view.stats.totalSpend = Sum(Amounts(WithoutRefunds(data)))
          /\ view.stats.topCategory.name = TopCategory(WithoutRefunds(data)).name
          /\ view.stats.topCategory.percentage
                = Percentage(TopCategory(WithoutRefunds(data)).value,
                             Sum(Amounts(WithoutRefunds(data))))
          /\ view.radarData = radarData(WithoutRefunds(data), env.tz)
    /\ view.op = "SpendTreemap" =>
          \A k \in 1..Len(data) :
              TreeValue(view.treeData, data[k].category)
                  = CategoryTotal(WithoutRefunds(data), data[k].category)

\* the spend total alone counts the positive amounts only
SpendTotalCountsExpensesOnly ==
    view.op = "DashboardStats" => view.stats.totalSpend = Sum(Amounts(WithoutRefunds(data)))

\* ---------------------------------------------------------------------------
\* The skipped-files warning (src/frontend/App.tsx:218-227)
\* ---------------------------------------------------------------------------

\* {skippedFiles.length > 0 && ( <div> Some files were skipped ... )}: the
\* element is rendered outside <Routes>, on every route.
SkippedWarningVisible ==
    Len(skippedFiles) > 0

\* C21: the skipped-files warning is shown only on the dashboard: in every
\* reachable state in which the warning is visible, the current view is the
\* dashboard.
C21_SkippedWarningOnlyOnDashboard ==
    SkippedWarningVisible => route = "/dashboard"

\* ---------------------------------------------------------------------------
\* The second pass: processFilesWithPassword over the pending files
\* (src/frontend/App.tsx:47-97, 131-155)
\* ---------------------------------------------------------------------------

\* the requests of the run that completes in slot r in this step, the last
\* one with what it settled with
LogAtEnd(r) ==
    SubSeq(runs[r].log, 1, Len(runs[r].log) - 1) \o <<runs'[r].last>>

\* what file f contributed: the transactions of its requests that resolved
ParsedOf(run, f) ==
    Flatten([k \in 1..Len(RequestsFor(run, f)) |->
                IF RequestsFor(run, f)[k].outcome = "ok"
                THEN RequestsFor(run, f)[k].transactions ELSE << >>])

\* the concatenation, in file order, of what each file contributed
ParsedInFileOrder(run, files) ==
    Flatten([k \in 1..Len(files) |-> ParsedOf(run, files[k])])

\* one step of the prompt and of the second pass, as the sentence describes it
PromptOnceReprocessAll ==
    /\ \A r \in 1..MaxRuns :
         (FirstPassSettles(r) /\ isPasswordModalOpen' /\ ~isPasswordModalOpen) =>
             pendingFilesRef' = runs[r].files
    /\ (isPasswordModalOpen /\ isPasswordModalOpen') =>
             pendingFilesRef' = pendingFilesRef
    /\ \A r \in 1..MaxRuns :
         PasswordRunStarts(r) =>
           /\ runs'[r].files = pendingFilesRef
           /\ runs'[r].files # << >>
           /\ runs'[r].allTransactions = << >>
    /\ \A r \in 1..MaxRuns :
         (runs[r].status = "active" /\ runs[r].kind = "password"
            /\ runs'[r] # runs[r] /\ ~runs[r].timedOut) =>
           (isPasswordModalOpen' = isPasswordModalOpen)
    /\ \A r \in 1..MaxRuns :
         (Completes(r) /\ runs[r].kind = "password") =>
           /\ \A k \in 1..Len(runs[r].files) :
                 Len(RequestsFor([log |-> LogAtEnd(r)], runs[r].files[k])) \in {1, 2}
           /\ LET parsed == ParsedInFileOrder([log |-> LogAtEnd(r)], runs[r].files)
              IN IF parsed = << >>
                 THEN runs'[r].outcome = "empty" /\ data' = data /\ route' = "/upload"
                 ELSE runs'[r].outcome = "dashboard" /\ data' = parsed
                      /\ route' = "/dashboard"

\* C22: if any file needs a password, the user is prompted once and all files
\* are reprocessed: the files pending while the modal is open are the selected
\* files, after the password is submitted every one of them is requested
\* again, no second prompt opens, and the data shown on the dashboard is the
\* concatenation, in file order, of the transactions of each file that parsed
\* in that second pass, each file contributing exactly once.
C22_PromptOnceReprocessAll == [][PromptOnceReprocessAll]_vars

\* The uploads in which every run ends before its 60 s deadline: Next without
\* the timer callback
NextWithinDeadline ==
    \/ \E n \in 1..MaxFiles : FilesSelect(n)
    \/ \E r \in 1..MaxRuns : SelectNext(r)
    \/ \E r \in 1..MaxRuns : SelectNeedsPassword(r)
    \/ \E r \in 1..MaxRuns : SelectFinish(r)
    \/ \E password \in Passwords : PasswordSubmit(password)
    \/ \E r \in 1..MaxRuns : PasswordRetry(r)
    \/ \E r \in 1..MaxRuns : PasswordNext(r)
    \/ \E r \in 1..MaxRuns : PasswordFinish(r)
    \/ handlePasswordCancel
    \/ handleUseDemoData
    \/ GetStarted
    \/ handleReset
    \/ DismissSkipped
    \/ DismissError

SpecWithinDeadline == Init /\ [][NextWithinDeadline]_vars

\* the prompt and the second pass behave as described when no run is reset
\* by the timeout (checked under SpecWithinDeadline)
PromptOnceWithinDeadline == [][PromptOnceReprocessAll]_vars

\* ---------------------------------------------------------------------------
\* The run that the timeout has reset (src/frontend/App.tsx:32-45)
\* ---------------------------------------------------------------------------

\* run r, which the timeout has reset, goes on in this step: one of its
\* requests settles
TimedOutRunResumes(r) ==
    /\ runs[r].status = "active"
    /\ runs[r].timedOut
    /\ runs'[r] # runs[r]

\* C23: once the 60-second UI timeout has reset the app to the upload state,
\* the timed-out processing run has no further visible effect: whatever its
\* in-flight requests later return, it never afterwards replaces the
\* transaction data, changes the skipped-files list, opens the password modal,
\* or navigates to /dashboard or /upload, also when the user has meanwhile
\* started a new upload.
C23_TimedOutRunHasNoEffect ==
    [][\A r \in 1..MaxRuns :
         TimedOutRunResumes(r) =>
           /\ data' = data
           /\ skippedFiles' = skippedFiles
           /\ isPasswordModalOpen' = isPasswordModalOpen
           /\ route' = route
      ]_vars

\* ---------------------------------------------------------------------------
\* The AppState-based App (src/App.tsx): the view is the state variable
\* `state` of type AppState, held here in `route`; there is no isProcessing
\* and no timer.  The two loops are those of the routed App.
\* ---------------------------------------------------------------------------

LANDING == "LANDING"
UPLOAD == "UPLOAD"
PROCESSING == "PROCESSING"
DASHBOARD == "DASHBOARD"

\* handleFilesSelect up to its first await (src/App.tsx:77-89)
AppStateFilesSelect(n) ==
    /\ route = UPLOAD
    /\ ~isPasswordModalOpen
    /\ FreeRuns # {}
    /\ LET run == StartRun("select", Selection(n), NoPassword)
       IN /\ runs' = [runs EXCEPT ![NewRun] = Issue(run, run.files[1], NoPassword)]
          /\ processingProgress' = ProgressAt(run)
    /\ skippedFiles' = << >>
    /\ route' = PROCESSING
    /\ error' = null
    /\ UNCHANGED <<data, isPasswordModalOpen, pendingFilesRef, storedPasswordRef,
                   isProcessing, timer, analytics>>

\* a request of the first pass settles and the loop goes on (src/App.tsx:85-101)
AppStateSelectNext(r) ==
    /\ r \in ActiveRuns
    /\ runs[r].kind = "select"
    /\ runs[r].i < Len(runs[r].files)
    /\ \E res \in Outcomes(runs[r]) :
         /\ ~SelectBreaks(res)
         /\ LET run == [SelectSettled(runs[r], res) EXCEPT !.i = @ + 1]
            IN /\ runs' = [runs EXCEPT ![r] = Issue(run, run.files[run.i], NoPassword)]
               /\ processingProgress' = ProgressAt(run)
    /\ UNCHANGED <<route, data, error, isPasswordModalOpen, skippedFiles, isProcessing,
                   pendingFilesRef, storedPasswordRef, timer, analytics>>

\* the first pass breaks on a password error and prompts (src/App.tsx:93-111)
AppStateSelectNeedsPassword(r) ==
    /\ r \in ActiveRuns
    /\ runs[r].kind = "select"
    /\ \E res \in Outcomes(runs[r]) :
         /\ SelectBreaks(res)
         /\ runs' = [runs EXCEPT ![r] = Ended(SettleLog(runs[r], res), "needsPassword")]
    /\ pendingFilesRef' = runs[r].files
    /\ route' = UPLOAD
    /\ isPasswordModalOpen' = TRUE
    /\ UNCHANGED <<data, error, processingProgress, skippedFiles, storedPasswordRef,
                   isProcessing, timer, analytics>>

\* the tail of handleFilesSelect without its check of allTransactions.length
AppStateSelectFinishUnchecked(r) ==
    /\ r \in ActiveRuns
    /\ runs[r].kind = "select"
    /\ runs[r].i = Len(runs[r].files)
    /\ \E res \in Outcomes(runs[r]) :
         /\ ~SelectBreaks(res)
         /\ LET run == SelectSettled(runs[r], res)
            IN /\ runs' = [runs EXCEPT ![r] = Ended(run, "dashboard")]
               /\ data' = run.allTransactions
               /\ route' = DASHBOARD
               /\ UNCHANGED error
    /\ UNCHANGED <<isPasswordModalOpen, processingProgress, skippedFiles, pendingFilesRef,
                   storedPasswordRef, isProcessing, timer, analytics>>

\* the last request of the first pass settles: the tail of handleFilesSelect
\* (src/App.tsx:113-122)
AppStateSelectFinish(r) ==
    /\ r \in ActiveRuns
    /\ runs[r].kind = "select"
    /\ runs[r].i = Len(runs[r].files)
    /\ \E res \in Outcomes(runs[r]) :
         /\ ~SelectBreaks(res)
         /\ LET run == SelectSettled(runs[r], res)
            IN IF run.allTransactions = << >>
               THEN /\ runs' = [runs EXCEPT ![r] = Ended(run, "empty")]
                    /\ error' = MsgNoTransactions
                    /\ route' = UPLOAD
                    /\ UNCHANGED data
               ELSE /\ runs' = [runs EXCEPT ![r] = Ended(run, "dashboard")]
                    /\ data' = run.allTransactions
                    /\ route' = DASHBOARD
                    /\ UNCHANGED error
    /\ UNCHANGED <<isPasswordModalOpen, processingProgress, skippedFiles, pendingFilesRef,
                   storedPasswordRef, isProcessing, timer, analytics>>

\* the tail of processFilesWithPassword (src/App.tsx:62-74)
AppStatePasswordTail(r, run) ==
    /\ skippedFiles' = run.skipped
    /\ pendingFilesRef' = << >>
    /\ storedPasswordRef' = ""
    /\ IF run.allTransactions = << >>
       THEN /\ runs' = [runs EXCEPT ![r] = Ended(run, "empty")]
            /\ error' = MsgNoTransactions
            /\ route' = UPLOAD
            /\ UNCHANGED <<data, processingProgress>>
       ELSE /\ runs' = [runs EXCEPT ![r] = Ended(run, "dashboard")]
            /\ data' = run.allTransactions
            /\ route' = DASHBOARD
            /\ processingProgress' = NoProgress
            /\ UNCHANGED error

\* handlePasswordSubmit: processFilesWithPassword up to its first await, or to
\* its end when nothing is pending (src/App.tsx:124-128, 27-36)
AppStatePasswordSubmit(password) ==
    /\ isPasswordModalOpen
    /\ FreeRuns # {}
    /\ isPasswordModalOpen' = FALSE
    /\ LET run == StartRun("password", pendingFilesRef, password)
       IN IF run.files = << >>
          THEN AppStatePasswordTail(NewRun, [run EXCEPT !.log = <<NoRequest>>])
          ELSE /\ runs' = [runs EXCEPT ![NewRun] = Issue(run, run.files[1], password)]
               /\ storedPasswordRef' = password
               /\ route' = PROCESSING
               /\ error' = null
               /\ processingProgress' = ProgressAt(run)
               /\ UNCHANGED <<data, skippedFiles, pendingFilesRef>>
    /\ UNCHANGED <<isProcessing, timer, analytics>>

\* the attempt with the password failed with a password error: the file is
\* requested again without password (src/App.tsx:46-50)
AppStatePasswordRetry(r) ==
    /\ r \in ActiveRuns
    /\ runs[r].kind = "password"
    /\ \E res \in Outcomes(runs[r]) :
         /\ NeedsRetry(runs[r], res)
         /\ LET run == [SettleLog(runs[r], res) EXCEPT !.retry = TRUE]
            IN runs' = [runs EXCEPT ![r] = Issue(run, run.files[run.i], NoPassword)]
    /\ UNCHANGED <<appUi, analytics>>

\* a file is done and the loop goes on to the next file (src/App.tsx:34-59)
AppStatePasswordNext(r) ==
    /\ r \in ActiveRuns
    /\ runs[r].kind = "password"
    /\ runs[r].i < Len(runs[r].files)
    /\ \E res \in Outcomes(runs[r]) :
         /\ ~NeedsRetry(runs[r], res)
         /\ LET run == [PasswordSettled(runs[r], res) EXCEPT !.i = @ + 1]
            IN /\ runs' = [runs EXCEPT ![r] = Issue(run, run.files[run.i], run.password)]
               /\ processingProgress' = ProgressAt(run)
    /\ UNCHANGED <<route, data, error, isPasswordModalOpen, skippedFiles, isProcessing,
                   pendingFilesRef, storedPasswordRef, timer, analytics>>

\* the last file is done: the tail of processFilesWithPassword
AppStatePasswordFinish(r) ==
    /\ r \in ActiveRuns
    /\ runs[r].kind = "password"
    /\ runs[r].i = Len(runs[r].files)
    /\ \E res \in Outcomes(runs[r]) :
         /\ ~NeedsRetry(runs[r], res)
         /\ AppStatePasswordTail(r, PasswordSettled(runs[r], res))
    /\ UNCHANGED <<isPasswordModalOpen, isProcessing, timer, analytics>>

\* handlePasswordCancel (src/App.tsx:130-135)
AppStatePasswordCancel ==
    /\ isPasswordModalOpen
    /\ isPasswordModalOpen' = FALSE
    /\ pendingFilesRef' = << >>
    /\ route' = UPLOAD
    /\ error' = MsgCancelled
    /\ UNCHANGED <<data, processingProgress, skippedFiles, isProcessing, storedPasswordRef,
                   timer, runs, analytics>>

\* handleUseDemoData, the onUseDemo of the landing page (src/App.tsx:137-141)
AppStateUseDemoData ==
    /\ route = LANDING
    /\ data' = MockData
    /\ route' = DASHBOARD
    /\ UNCHANGED <<error, isPasswordModalOpen, processingProgress, skippedFiles, isProcessing,
                   pendingFilesRef, storedPasswordRef, timer, runs, analytics>>

\* onGetStarted={() => setState(AppState.UPLOAD)}
AppStateGetStarted ==
    /\ route = LANDING
    /\ route' = UPLOAD
    /\ UNCHANGED <<data, error, isPasswordModalOpen, processingProgress, skippedFiles,
                   isProcessing, pendingFilesRef, storedPasswordRef, timer, runs, analytics>>

\* handleReset, the onReset of the dashboard (src/App.tsx:143-150)
AppStateReset ==
    /\ route = DASHBOARD
    /\ data' = << >>
    /\ error' = null
    /\ skippedFiles' = << >>
    /\ pendingFilesRef' = << >>
    /\ storedPasswordRef' = ""
    /\ route' = LANDING
    /\ UNCHANGED <<isPasswordModalOpen, processingProgress, isProcessing, timer, runs, analytics>>

\* the x button of the skipped-files warning, rendered on the dashboard
AppStateDismissSkipped ==
    /\ Len(skippedFiles) > 0
    /\ route = DASHBOARD
    /\ skippedFiles' = << >>
    /\ UNCHANGED <<route, data, error, isPasswordModalOpen, processingProgress, isProcessing,
                   pendingFilesRef, storedPasswordRef, timer, runs, analytics>>

\* the x button of the error toast, rendered on the upload view
AppStateDismissError ==
    /\ error # null
    /\ route = UPLOAD
    /\ ~isPasswordModalOpen
    /\ error' = null
    /\ UNCHANGED <<route, data, isPasswordModalOpen, processingProgress, skippedFiles,
                   isProcessing, pendingFilesRef, storedPasswordRef, timer, runs, analytics>>

InitAppState ==
    /\ InitUi
    /\ route = LANDING
    /\ data = << >>
    /\ view = NoView
    /\ env = UTC

NextAppState ==
    \/ \E n \in 1..MaxFiles : AppStateFilesSelect(n)
    \/ \E r \in 1..MaxRuns : AppStateSelectNext(r)
    \/ \E r \in 1..MaxRuns : AppStateSelectNeedsPassword(r)
    \/ \E r \in 1..MaxRuns : AppStateSelectFinish(r)
    \/ \E password \in Passwords : AppStatePasswordSubmit(password)
    \/ \E r \in 1..MaxRuns : AppStatePasswordRetry(r)
    \/ \E r \in 1..MaxRuns : AppStatePasswordNext(r)
    \/ \E r \in 1..MaxRuns : AppStatePasswordFinish(r)
    \/ AppStatePasswordCancel
    \/ AppStateUseDemoData
    \/ AppStateGetStarted
    \/ AppStateReset
    \/ AppStateDismissSkipped
    \/ AppStateDismissError

SpecAppState == InitAppState /\ [][NextAppState]_vars

\* C24: in the AppState-based App, after any sequence of uploads, password
\* submissions, cancellations, demo loads and resets, whenever the state is
\* DASHBOARD the transaction list is non-empty; an upload that yields zero
\* transactions ends in the UPLOAD state with the error 'No transactions
\* found in any of the uploaded files.' and leaves the previous data unchanged.
C24_DashboardHasTransactions ==
    /\ [](route = DASHBOARD => data # << >>)
    /\ [][\A r \in 1..MaxRuns :
            (Completes(r)
               /\ ParsedInFileOrder([log |-> LogAtEnd(r)], runs[r].files) = << >>) =>
              /\ route' = UPLOAD
              /\ error' = MsgNoTransactions
              /\ data' = data
         ]_vars

\* C24 witness: an upload of two files through the password prompt has ended
\* on the dashboard with the transactions of one file, the other one skipped
C24_Witness ==
    /\ route = DASHBOARD
    /\ data # << >>
    /\ Len(skippedFiles) = 1
    /\ \E r \in 1..MaxRuns :
         /\ runs[r].status = "done"
         /\ runs[r].kind = "password"
         /\ runs[r].outcome = "dashboard"

\* an upload through the password prompt that yielded no transaction has
\* ended on the upload view with the error
EmptyUploadEndsOnUpload ==
    /\ route = UPLOAD
    /\ error = MsgNoTransactions
    /\ data = << >>
    /\ \E r \in 1..MaxRuns :
         /\ runs[r].status = "done"
         /\ runs[r].kind = "password"
         /\ runs[r].outcome = "empty"

\* ---------------------------------------------------------------------------
\* The stored password (src/frontend/App.tsx:30, 151-155)
\* ---------------------------------------------------------------------------

\* C25: the password typed by the user is kept only while a processing run is
\* in progress: in every reachable state in which isProcessing is false, the
\* stored password is the empty string.
C25_PasswordKeptOnlyWhileProcessing ==
    ~isProcessing => storedPasswordRef = ""

\* ---------------------------------------------------------------------------
\* The chat box (src/frontend/components/ChatBot.tsx,
\* src/frontend/services/chatService.ts).  view holds the component state
\* (messages, inputValue, isLoading) and the pending sendChatMessage call;
\* env.apiKey says whether GEMINI_API_KEY is set.  A text is a sequence of
\* characters.
\* ---------------------------------------------------------------------------

MaxInputLen == 2

MaxMessages == 4

\* the characters of a typed message: a blank and a letter
ChatChars == {" ", "a"}

ChatInputs == UNION {[1..len -> ChatChars] : len \in 0..MaxInputLen}

RECURSIVE TrimStart(_)
TrimStart(chars) ==
    IF chars # << >> /\ Head(chars) = " " THEN TrimStart(Tail(chars)) ELSE chars

RECURSIVE TrimEnd(_)
TrimEnd(chars) ==
    IF chars # << >> /\ chars[Len(chars)] = " "
    THEN TrimEnd(SubSeq(chars, 1, Len(chars) - 1)) ELSE chars

\* String.prototype.trim
TrimChars(chars) == TrimEnd(TrimStart(chars))

ChatKeyMissing == <<"API Key Missing">>
ChatError == <<"Error", "Failed to process your message. Please try again.">>
ChatNoText == <<"I couldn't process your request. Please try again.">>
ChatWentWrong == <<"Something went wrong. Please try again.">>
ChatAnswer == <<"answer">>

\* what generateContent comes back with: it rejects, or response.text() is
\* empty or an answer
ChatReplies == {[kind |-> "rejected", text |-> << >>],
                [kind |-> "text", text |-> << >>],
                [kind |-> "text", text |-> ChatAnswer]}

\* callGeminiChat: response.text() || "I couldn't process your request. ..."
callGeminiChat(reply) ==
    IF reply.kind = "rejected" THEN [ok |-> FALSE, value |-> << >>]
    ELSE [ok |-> TRUE, value |-> IF reply.text # << >> THEN reply.text ELSE ChatNoText]

\* sendChatMessage from the answer of callGeminiChat on: the catch turns
\* every throw into the error text
sendChatMessage(reply) ==
    IF callGeminiChat(reply).ok THEN callGeminiChat(reply)
    ELSE [ok |-> TRUE, value |-> ChatError]

NoChatCall == [state |-> "idle", response |-> [ok |-> TRUE, value |-> << >>]]

\* handleSendMessage without the isLoading half of its first line
handleSendMessageWhileLoading(message) ==
    /\ view.op = "ChatBot"
    /\ Len(view.messages) < MaxMessages
    /\ IF TrimChars(message) = << >>
       THEN UNCHANGED view
       ELSE view' = [view EXCEPT
                       !.messages = Append(@, [role |-> "user",
                                               content |-> TrimChars(message)]),
                       !.inputValue = << >>,
                       !.isLoading = TRUE,
                       !.call = IF env.apiKey
                                THEN [state |-> "awaiting", response |-> NoChatCall.response]
                                ELSE [state |-> "resolved",
                                      response |-> [ok |-> TRUE, value |-> ChatKeyMissing]]]
    /\ UNCHANGED <<appVars, env>>

\* handleSendMessage up to its await (lines 37-57), called with any message
\* at any time: the Enter key and the send button pass inputValue, a sample
\* question passes its text.  Without an API key sendChatMessage returns at
\* once.
handleSendMessage(message) ==
    /\ view.op = "ChatBot"
    /\ Len(view.messages) < MaxMessages
    /\ IF TrimChars(message) = << >> \/ view.isLoading
       THEN UNCHANGED view
       ELSE view' = [view EXCEPT
                       !.messages = Append(@, [role |-> "user",
                                               content |-> TrimChars(message)]),
                       !.inputValue = << >>,
                       !.isLoading = TRUE,
                       !.call = IF env.apiKey
                                THEN [state |-> "awaiting", response |-> NoChatCall.response]
                                ELSE [state |-> "resolved",
                                      response |-> [ok |-> TRUE, value |-> ChatKeyMissing]]]
    /\ UNCHANGED <<appVars, env>>

\* onChange of the input, which is disabled while isLoading
setInputValue(text) ==
    /\ view.op = "ChatBot"
    /\ ~view.isLoading
    /\ view' = [view EXCEPT !.inputValue = text]
    /\ UNCHANGED <<appVars, env>>

\* generateContent settles and sendChatMessage returns
ChatSettles(reply) ==
    /\ view.op = "ChatBot"
    /\ view.call.state = "awaiting"
    /\ view' = [view EXCEPT !.call = [state |-> "resolved",
                                      response |-> sendChatMessage(reply)]]
    /\ UNCHANGED <<appVars, env>>

\* handleSendMessage after its await (lines 59-77): try, catch and finally
handleSendMessageResumes ==
    /\ view.op = "ChatBot"
    /\ view.call.state = "resolved"
    /\ view' = [view EXCEPT
                  !.messages = Append(@, [role |-> "assistant",
                                          content |-> IF view.call.response.ok
                                                      THEN view.call.response.value
                                                      ELSE ChatWentWrong]),
                  !.isLoading = FALSE,
                  !.call = NoChatCall]
    /\ UNCHANGED <<appVars, env>>

InitChat ==
    /\ InitUi
    /\ route = "/dashboard"
    /\ data = MockData
    /\ view = [op |-> "ChatBot", messages |-> << >>, inputValue |-> << >>,
               isLoading |-> FALSE, call |-> NoChatCall]
    /\ env \in [apiKey : BOOLEAN]

NextChat ==
    \/ \E text \in ChatInputs : setInputValue(text)
    \/ \E message \in ChatInputs : handleSendMessage(message)
    \/ \E reply \in ChatReplies : ChatSettles(reply)
    \/ handleSendMessageResumes

SpecChat == InitChat /\ [][NextChat]_vars

\* generateContent settles, and the continuation of an async function runs
SpecChatFair ==
    /\ SpecChat
    /\ WF_vars(\E reply \in ChatReplies : ChatSettles(reply))
    /\ WF_vars(handleSendMessageResumes)

\* the role of the last message, "none" for the empty list
LastRole ==
    IF view.messages = << >> THEN "none" ELSE view.messages[Len(view.messages)].role

\* a user message is appended in this step
UserMessageAppended ==
    /\ Len(view'.messages) = Len(view.messages) + 1
    /\ view'.messages[Len(view'.messages)].role = "user"

Precision == 52 + 1

LimbBase == 2^13

LimbBits == CHOOSE k \in 1..30 : 2^k = LimbBase

RECURSIVE CarryFrom(_, _)
\* the limbs of sum(raw[i] * LimbBase^(i-1)) + c * LimbBase^0
CarryFrom(raw, c) ==
    IF raw = << >>
    THEN IF c = 0 THEN << >> ELSE <<c % LimbBase>> \o CarryFrom(<< >>, c \div LimbBase)
    ELSE LET t == Head(raw) + c
         IN <<t % LimbBase>> \o CarryFrom(Tail(raw), t \div LimbBase)

RECURSIVE Canonical(_)
\* without leading zero limbs
Canonical(a) ==
    IF a # << >> /\ a[Len(a)] = 0 THEN Canonical(SubSeq(a, 1, Len(a) - 1)) ELSE a

Limb(a, i) == IF i <= Len(a) THEN a[i] ELSE 0

BigOf(n) == CarryFrom(<< >>, n)

BigAdd(a, b) ==
    LET len == IF Len(a) > Len(b) THEN Len(a) ELSE Len(b)
    IN CarryFrom([i \in 1..len |-> Limb(a, i) + Limb(b, i)], 0)

RECURSIVE BorrowFrom(_, _, _)
BorrowFrom(a, b, borrow) ==
    IF a = << >> THEN << >>
    ELSE LET t == Head(a) - (IF b = << >> THEN 0 ELSE Head(b)) - borrow
         IN <<IF t < 0 THEN t + LimbBase ELSE t>>
              \o BorrowFrom(Tail(a), IF b = << >> THEN << >> ELSE Tail(b),
                            IF t < 0 THEN 1 ELSE 0)

\* -1, 0 or 1 as a is less than, equal to or greater than b
BigCmp(a, b) ==
    IF Len(a) # Len(b) THEN (IF Len(a) > Len(b) THEN 1 ELSE -1)
    ELSE LET differ == {i \in 1..Len(a) : a[i] # b[i]}
         IN IF differ = {} THEN 0
            ELSE LET top == CHOOSE i \in differ : \A j \in differ : j <= i
                 IN IF a[top] > b[top] THEN 1 ELSE -1

\* a - b, for a >= b
BigSub(a, b) == Canonical(BorrowFrom(a, b, 0))

RECURSIVE Column(_, _, _, _)
\* sum of a[i] * b[k + 1 - i] over i from 1 to upto
Column(a, b, k, upto) ==
    IF upto = 0 THEN 0
    ELSE (IF k + 1 - upto >= 1 /\ k + 1 - upto <= Len(b)
          THEN a[upto] * b[k + 1 - upto] ELSE 0) + Column(a, b, k, upto - 1)

BigMul(a, b) ==
    IF a = << >> \/ b = << >> THEN << >>
    ELSE Canonical(CarryFrom([k \in 1..(Len(a) + Len(b) - 1) |->
                                 Column(a, b, k, Len(a))] \o << >>, 0))

RECURSIVE DivSmall(_, _)
\* quotient and remainder of a by the small number d
DivSmall(a, d) ==
    IF a = << >> THEN [q |-> << >>, r |-> 0]
    ELSE LET high == DivSmall(Tail(a), d)
             t == high.r * LimbBase + Head(a)
         IN [q |-> Canonical(<<t \div d>> \o high.q), r |-> t % d]

\* 2^n
Pow2(n) ==
    [i \in 1..(n \div LimbBits + 1) |->
        IF i = n \div LimbBits + 1 THEN 2^(n % LimbBits) ELSE 0]

ShiftLeft(a, n) == BigMul(a, Pow2(n))

\* floor(a / 2^n)
ShiftRight(a, n) ==
    LET whole == n \div LimbBits
    IN IF whole >= Len(a) THEN << >>
       ELSE DivSmall(SubSeq(a, whole + 1, Len(a)), 2^(n % LimbBits)).q

\* the number of bits of a, 0 for zero
BitLength(a) ==
    IF a = << >> THEN 0
    ELSE (Len(a) - 1) * LimbBits
            + (CHOOSE k \in 1..LimbBits : 2^(k - 1) <= a[Len(a)] /\ a[Len(a)] < 2^k)

IsOdd(a) == a # << >> /\ a[1] % 2 = 1

\* q or q + 1 as the dropped bits are below or above one half; a tie goes
\* to the even one
RoundTie(neg, q, half, e) ==
    [neg |-> neg, e |-> e,
     m |-> IF half = 1 \/ (half = 0 /\ IsOdd(q)) THEN BigAdd(q, BigOf(1)) ELSE q]

\* m without its lowest drop bits is q
RoundUp(neg, q, m, e, drop) ==
    RoundTie(neg, q, BigCmp(BigSub(m, ShiftLeft(q, drop)), Pow2(drop - 1)), e + drop)

RoundOff(neg, m, e, drop) ==
    IF drop <= 0 THEN [neg |-> neg, e |-> e, m |-> m]
    ELSE RoundUp(neg, ShiftRight(m, drop), m, e, drop)

\* the double nearest to (-1)^neg * m * 2^e, ties to even
Round(neg, m, e) == RoundOff(neg, m, e, BitLength(m) - Precision)

\* the double nearest to a value strictly between q * 2^e and (q + 1) * 2^e
\* when inexact, equal to q * 2^e otherwise; q has more than Precision bits
RoundSticky(neg, q, inexact, e) ==
    Round(neg, BigAdd(ShiftLeft(q, 1), BigOf(IF inexact THEN 1 ELSE 0)), e - 1)

\* (-1)^xneg * a * 2^e + (-1)^yneg * b * 2^e
Aligned(xneg, a, yneg, b, e) ==
    IF xneg = yneg THEN [neg |-> xneg, m |-> BigAdd(a, b), e |-> e]
    ELSE IF BigCmp(a, b) >= 0 THEN [neg |-> xneg, m |-> BigSub(a, b), e |-> e]
    ELSE [neg |-> yneg, m |-> BigSub(b, a), e |-> e]

AlignedAt(x, y, e) ==
    Aligned(x.neg, ShiftLeft(x.m, x.e - e), y.neg, ShiftLeft(y.m, y.e - e), e)

\* the exact sum of two doubles, not rounded
ExactAdd(x, y) == AlignedAt(x, y, IF x.e < y.e THEN x.e ELSE y.e)

Negated(x) == [x EXCEPT !.neg = ~x.neg]

\* the Number that an integer literal or length denotes
NumberOf(n) == [neg |-> n < 0, m |-> BigOf(IF n < 0 THEN -n ELSE n), e |-> 0]

Rounded(s) == Round(s.neg, s.m, s.e)

\* x + y
NumAdd(x, y) == Rounded(ExactAdd(x, y))

\* x - y
NumSub(x, y) == NumAdd(x, Negated(y))

\* x * y
NumMul(x, y) == Round(x.neg # y.neg, BigMul(x.m, y.m), x.e + y.e)

RoundQuotient(neg, d, e) == RoundSticky(neg, d.q, d.r # 0, e)

\* x / n for a positive integer n below 2^18
NumDivInt(x, n) ==
    IF x.m = << >> THEN x
    ELSE RoundQuotient(x.neg, DivSmall(ShiftLeft(x.m, Precision + 20), n),
                       x.e - (Precision + 20))

RECURSIVE SqrtBits(_, _, _, _)
\* the largest root + d * 2^at with d < 2^(k + 1) whose square is at most big
SqrtBits(big, root, at, k) ==
    IF k < 0 THEN root
    ELSE LET try == BigAdd(root, Pow2(at + k))
         IN IF BigCmp(BigMul(try, try), big) <= 0
            THEN SqrtBits(big, try, at, k - 1)
            ELSE SqrtBits(big, root, at, k - 1)

RECURSIVE SqrtLimbs(_, _, _)
\* floor(sqrt(big)), found limb by limb from limb k down
SqrtLimbs(big, root, k) ==
    IF k < 0 THEN root
    ELSE SqrtLimbs(big, SqrtBits(big, root, k * LimbBits, LimbBits - 1), k - 1)

SqrtRounded(big, root, e) ==
    RoundSticky(FALSE, root, BigCmp(BigMul(root, root), big) # 0, e)

\* sqrt(big * 2^(2 * e))
SqrtOf(big, e) == SqrtRounded(big, SqrtLimbs(big, << >>, Len(big) \div 2), e)

\* sqrt(x) from x.m * 2^k, whose exponent x.e - k is even
SqrtScaled(x, k) == SqrtOf(ShiftLeft(x.m, k), (x.e - k) \div 2)

SqrtWith(x, want) == SqrtScaled(x, want + ((x.e - want) % 2))

\* Math.sqrt(x) for x >= 0
NumSqrt(x) ==
    IF x.m = << >> THEN x
    ELSE SqrtWith(x, 2 * Precision + 6 - BitLength(x.m))

Positive(d) == d.m # << >> /\ ~d.neg

\* x > y
NumGreater(x, y) == Positive(ExactAdd(x, Negated(y)))

RECURSIVE NumSum(_)
\* amounts.reduce((a, b) => a + b, 0)
NumSum(amounts) ==
    IF amounts = << >> THEN NumberOf(0)
    ELSE NumAdd(NumSum(SubSeq(amounts, 1, Len(amounts) - 1)), amounts[Len(amounts)])

\* Math.pow(d, 2)
Squared(d) == NumMul(d, d)

RECURSIVE SumOfSquares(_, _)
\* amounts.reduce((sum, a) => sum + Math.pow(a - avgAmount, 2), 0)
SumOfSquares(amounts, avgAmount) ==
    IF amounts = << >> THEN NumberOf(0)
    ELSE NumAdd(SumOfSquares(SubSeq(amounts, 1, Len(amounts) - 1), avgAmount),
                Squared(NumSub(amounts[Len(amounts)], avgAmount)))

\* threshold = avgAmount + 2 * stdDev
StatsOf(avgAmount, stdDev) ==
    [avgAmount |-> avgAmount, stdDev |-> stdDev,
     threshold |-> NumAdd(avgAmount, NumMul(NumberOf(2), stdDev))]

\* stdDev = Math.sqrt(amounts.reduce(...) / amounts.length)
StatsAround(amounts, avgAmount) ==
    StatsOf(avgAmount, NumSqrt(NumDivInt(SumOfSquares(amounts, avgAmount), Len(amounts))))

\* avgAmount, stdDev and avgAmount + 2 * stdDev as the views compute them
OutlierStats(amounts) ==
    StatsAround(amounts, NumDivInt(NumSum(amounts), Len(amounts)))

\* filter(t => t.amount > threshold)
AboveNumber(expenses, threshold) ==
    SelectSeq(expenses, LAMBDA t : NumGreater(NumberOf(t.amount), threshold))

\* the outliers among the expenses; of no expenses the mean is NaN, which
\* nothing is greater than
OutliersAmong(expenses) ==
    IF expenses = << >> THEN << >>
    ELSE AboveNumber(expenses,
             OutlierStats([k \in 1..Len(expenses) |->
                              NumberOf(expenses[k].amount)]).threshold)

\* expenses.filter(t => t.amount > threshold), and
\* debits.filter(t => t.amount > avgAmount + 2 * stdDev): the same Numbers
NumberOutliers(txs) == OutliersAmong(Debits(txs))

\* outliers.slice(0, 3).forEach(...)
AlertsOf(outliers) ==
    [op |-> "AlertsAnomalies", outliers |-> outliers,
     alerts |-> [k \in 1..Len(Slice(outliers, 3)) |->
                   [id |-> <<"outlier", k - 1>>, type |-> "anomaly",
                    amount |-> outliers[k].amount, date |-> outliers[k].date]]]

\* AlertsAnomalies.tsx:24-45: the alerts of the first three outliers
RenderOutlierAlerts ==
    /\ view = NoView
    /\ view' = AlertsOf(NumberOutliers(data))
    /\ UNCHANGED <<appVars, env>>

\* if (outliers.length > 0) results.push({title: 'Unusual Transactions', ...})
InsightOf(outliers) ==
    [op |-> "SmartAnalytics", outliers |-> outliers,
     insight |-> IF Len(outliers) > 0
                 THEN <<"Unusual Transactions", Len(outliers), "detected">>
                 ELSE << >>]

\* part_006:171-186: the 'Unusual Transactions' insight
RenderUnusualTransactions ==
    /\ view = NoView
    /\ view' = InsightOf(NumberOutliers(data))
    /\ UNCHANGED <<appVars, env>>

MaxNumberTx == 5

\* a small and a large amount
NumberProtos ==
    [date : {<<2024, 1, 15>>}, merchant : {"Uber"}, amount : {1, 22},
     category : {"Transport"}]

InitNumbers ==
    /\ \E n \in 1..MaxNumberTx : \E f \in [1..n -> NumberProtos] : Dashboard(Numbered(f))
    /\ env = UTC

NextNumbers ==
    \/ RenderOutlierAlerts
    \/ RenderUnusualTransactions

SpecNumbers == InitNumbers /\ [][NextNumbers]_vars

\* C27: with the population standard deviation and the strict comparison
\* amount > mean + 2 sigma, no transaction is flagged as an outlier when there
\* are 5 or fewer expense transactions, whatever their amounts; at least 6
\* expenses are needed before any outlier alert can appear.
C27_NoOutlierBelowSixExpenses ==
    (view.op \in {"AlertsAnomalies", "SmartAnalytics"} /\ Len(Debits(data)) <= 5)
        => view.outliers = << >>

\* in exact arithmetic (the views of SpecOutliers) the statement holds
NoOutlierBelowSixExpensesExactly ==
    (view.op \in {"AlertsAnomalies", "SmartAnalytics"} /\ Len(Debits(data)) <= 5)
        => view.outliers = << >>

-----------------------------------------------------------------------------
(* RecurringPaymentFinder: the recurringPayments memo step by step.  The
   position of the callback is view.pc: "while" inside the catch-up loop of
   the merchant Head(view.merchants), "sort" after the forEach, "return" once
   the sorted list has been returned.  frequency, lastPaymentDate and
   nextRenewal are the locals of the forEach callback. *)

\* the merchants of merchantMap that pass both early returns, in map order
RecurringKeys(debits) ==
    SelectSeq(FirstOccurrences([k \in 1..Len(debits) |-> MerchantKey(debits[k])]),
              LAMBDA key :
                  /\ Len(MerchantGroup(debits, key)) >= 2
                  /\ isConsistent(Amounts(MerchantGroup(debits, key))))

\* the forEach callback from its entry to the while, for the first of the
\* merchants; with no merchant left the forEach is over
CallbackEntered(keys, payments) ==
    IF keys = << >>
    THEN view' = [op |-> "recurringPayments", pc |-> "sort", merchants |-> keys,
                  payments |-> payments, frequency |-> "", lastPaymentDate |-> << >>,
                  nextRenewal |-> 0]
    ELSE \E sortedDates \in {SortedDates(MerchantGroup(Debits(data), Head(keys)))} :
         \E frequency \in {Frequency(sortedDates)} :
             view' = [op |-> "recurringPayments", pc |-> "while",
                      merchants |-> keys, payments |-> payments,
                      frequency |-> frequency,
                      lastPaymentDate |-> sortedDates[Len(sortedDates)],
                      nextRenewal |-> StepRenewal(DateOf(sortedDates[Len(sortedDates)]),
                                                  env.tz, frequency)]

\* the memo runs to its end before it is evaluated again
MemoRunning == view.op = "recurringPayments" /\ view.pc # "return"

\* useMemo(() => { ... merchantMap.forEach(
recurringPaymentsBegin ==
    /\ route = "/dashboard"
    /\ ~MemoRunning
    /\ CallbackEntered(RecurringKeys(Debits(data)), << >>)
    /\ UNCHANGED <<appVars, env>>

\* while (nextRenewal < today) { switch (frequency) ... }: one iteration
WhileAdvance ==
    /\ MemoRunning
    /\ view.pc = "while"
    /\ view.nextRenewal < env.today
    /\ view' = [view EXCEPT !.nextRenewal = StepRenewal(@, env.tz, view.frequency)]
    /\ UNCHANGED <<appVars, env>>

\* payments.push({ ... }) with the callback's locals
Pushed(key, group, today) ==
    [id |-> key,
     merchant |-> Capitalize(key),
     type |-> PaymentType(key),
     amount |-> <<Sum(Amounts(group)), Len(group)>>,
     frequency |-> view.frequency,
     lastPaymentDate |-> view.lastPaymentDate,
     nextRenewalDate |-> ISODate(view.nextRenewal),
     daysUntilRenewal |-> CeilDiv(view.nextRenewal - today, MinutesPerDay),
     occurrences |-> Len(group),
     yearlyTotal |-> <<Sum(Amounts(group)) * yearlyMultiplier(view.frequency), Len(group)>>,
     category |-> group[1].category]

\* the loop left at once, whatever nextRenewal is
WhileExitUnchecked ==
    /\ MemoRunning
    /\ view.pc = "while"
    /\ \E payment \in {Pushed(Head(view.merchants),
                              MerchantGroup(Debits(data), Head(view.merchants)),
                              env.today)} :
           CallbackEntered(Tail(view.merchants), Append(view.payments, payment))
    /\ UNCHANGED <<appVars, env>>

\* the loop condition fails: daysUntilRenewal, payments.push, next merchant
WhileExit ==
    /\ MemoRunning
    /\ view.pc = "while"
    /\ ~(view.nextRenewal < env.today)
    /\ \E payment \in {Pushed(Head(view.merchants),
                              MerchantGroup(Debits(data), Head(view.merchants)),
                              env.today)} :
           CallbackEntered(Tail(view.merchants), Append(view.payments, payment))
    /\ UNCHANGED <<appVars, env>>

\* return payments.sort((a, b) => a.daysUntilRenewal - b.daysUntilRenewal)
SortPayments ==
    /\ MemoRunning
    /\ view.pc = "sort"
    /\ view' = [view EXCEPT
                   !.pc = "return",
                   !.payments = SortBy(@, LAMBDA a, b :
                                    a.daysUntilRenewal - b.daysUntilRenewal < 0)]
    /\ UNCHANGED <<appVars, env>>

MaxMerchants == 2

\* each merchant is charged 100 twice
ChargesPerMerchant == 2

RenewalMerchants == <<"Netflix", "Jio", "Airtel">>

\* Dates a week, a month, a quarter and most of a year apart, the last of
\* them up to two years before today
RenewalDates ==
    {<<2023, 6, 15>>, <<2024, 2, 29>>, <<2025, 1, 31>>, <<2025, 2, 28>>,
     <<2025, 3, 31>>}

\* the transactions of the charges f[m][c], merchant by merchant
Charges(f) ==
    [k \in 1..(Len(f) * ChargesPerMerchant) |->
        [date |-> f[((k - 1) \div ChargesPerMerchant) + 1][((k - 1) % ChargesPerMerchant) + 1],
         merchant |-> RenewalMerchants[((k - 1) \div ChargesPerMerchant) + 1],
         amount |-> 100, category |-> "Entertainment", id |-> <<"tx", k>>]]

\* the morning (UTC) of 2025-04-20 and the midnight (UTC) that opens
\* 2025-04-21, in New York (UTC-5) and in London
RenewalEnvs ==
    [today : {DateOf(<<2025, 4, 20>>) + 10 * 60, DateOf(<<2025, 4, 21>>)},
     tz : {-300, 0}]

InitRenewal ==
    /\ InitUi
    /\ route = "/upload"
    /\ data = << >>
    /\ view = NoView
    /\ env \in RenewalEnvs

\* setData(allTransactions); navigate('/dashboard')
ShowDashboard(txs) ==
    /\ route = "/upload"
    /\ data' = txs
    /\ route' = "/dashboard"
    /\ UNCHANGED <<error, isPasswordModalOpen, processingProgress, skippedFiles,
                   isProcessing, pendingFilesRef, storedPasswordRef, timer, runs,
                   analytics>>

NextRenewalStep ==
    \/ \E n \in 1..MaxMerchants :
           \E f \in [1..n -> [1..ChargesPerMerchant -> RenewalDates]] :
               ShowDashboard(Charges(f))
    \/ recurringPaymentsBegin
    \/ WhileAdvance
    \/ WhileExit
    \/ SortPayments

SpecRenewal == InitRenewal /\ [][NextRenewalStep]_vars

\* the callback is synchronous code: every step that can be taken is taken
SpecRenewalFair ==
    /\ SpecRenewal
    /\ WF_vars(WhileAdvance)
    /\ WF_vars(WhileExit)
    /\ WF_vars(SortPayments)

\* the list is ordered by ascending daysUntilRenewal
AscendingRenewals(payments) ==
    \A k \in 1..(Len(payments) - 1) :
        payments[k].daysUntilRenewal <= payments[k + 1].daysUntilRenewal

\* C28: for every recurring payment and every frequency the loop that
\* advances a past renewal date terminates (a memo that has started always
\* returns); a payment is pushed only when the projected renewal is not before
\* today, so every payment pushed has daysUntilRenewal >= 0; and the list
\* returned is ordered by ascending daysUntilRenewal and is the list the memo
\* computes.
C28_RenewalLoopTerminates ==
    /\ MemoRunning ~> (view.op = "recurringPayments" /\ view.pc = "return")
    /\ [][(MemoRunning /\ Len(view'.payments) > Len(view.payments))
              => view.nextRenewal >= env.today]_vars
    /\ [](view.op = "recurringPayments" =>
            \A k \in 1..Len(view.payments) : view.payments[k].daysUntilRenewal >= 0)
    /\ [](view.op = "recurringPayments" /\ view.pc = "return" =>
            /\ AscendingRenewals(view.payments)
            /\ view.payments = recurringPayments(data, env.today, env.tz))

\* two merchants returned, soonest first, the list reordered by the sort, and
\* a renewal that lay in the past before the loop advanced it
C28_Witness ==
    /\ view.op = "recurringPayments"
    /\ view.pc = "return"
    /\ Len(view.payments) = 2
    /\ view.payments[1].daysUntilRenewal < view.payments[2].daysUntilRenewal
    /\ view.payments[1].id = RecurringKeys(Debits(data))[2]
    /\ \E k \in 1..2 :
           StepRenewal(DateOf(view.payments[k].lastPaymentDate), env.tz,
                       view.payments[k].frequency) < env.today

-----------------------------------------------------------------------------
(* TransactionTable: the filter state and the sorting state of the table.
   The strings typed into the filters are drawn from small sets. *)

SortFields == {"date", "merchant", "category", "amount"}

SearchQueries == {"", "net"}
CategoryChoices == {"all", "Food", "Entertainment"}
AmountTexts == {"", "100"}
DateTexts == {"", "2025-01-31"}

\* the useState initial values
TransactionTable ==
    [op |-> "TransactionTable",
     searchQuery |-> "", selectedCategory |-> "all",
     amountRange |-> [min |-> "", max |-> ""],
     dateRange |-> [start |-> "", end |-> ""],
     showFilters |-> FALSE,
     sortField |-> "date", sortDirection |-> "desc"]

\* a click on another column keeps the direction
handleSortKeepsDirection(field) ==
    /\ view' = IF view.sortField = field
               THEN [view EXCEPT !.sortDirection = IF @ = "asc" THEN "desc" ELSE "asc"]
               ELSE [view EXCEPT !.sortField = field]
    /\ UNCHANGED <<appVars, env>>

\* a click on the header of a column
handleSort(field) ==
    /\ view' = IF view.sortField = field
               THEN [view EXCEPT !.sortDirection = IF @ = "asc" THEN "desc" ELSE "asc"]
               ELSE [view EXCEPT !.sortField = field, !.sortDirection = "desc"]
    /\ UNCHANGED <<appVars, env>>

hasActiveFilters ==
    \/ view.searchQuery # ""
    \/ view.selectedCategory # "all"
    \/ view.amountRange.min # ""
    \/ view.amountRange.max # ""
    \/ view.dateRange.start # ""
    \/ view.dateRange.end # ""

\* the clear button, rendered while a filter is active
clearFilters ==
    /\ hasActiveFilters
    /\ view' = [view EXCEPT !.searchQuery = "", !.selectedCategory = "all",
                            !.amountRange = [min |-> "", max |-> ""],
                            !.dateRange = [start |-> "", end |-> ""]]
    /\ UNCHANGED <<appVars, env>>

\* onChange of the search input
setSearchQuery(text) ==
    /\ view' = [view EXCEPT !.searchQuery = text]
    /\ UNCHANGED <<appVars, env>>

\* onChange of the category select
setSelectedCategory(category) ==
    /\ view' = [view EXCEPT !.selectedCategory = category]
    /\ UNCHANGED <<appVars, env>>

\* onClick of the Filters button
setShowFilters ==
    /\ view' = [view EXCEPT !.showFilters = ~@]
    /\ UNCHANGED <<appVars, env>>

\* onChange of the two amount inputs of the open filter panel
setAmountRange(bound, text) ==
    /\ view.showFilters
    /\ view' = [view EXCEPT !.amountRange[bound] = text]
    /\ UNCHANGED <<appVars, env>>

\* onChange of the two date inputs of the open filter panel
setDateRange(bound, text) ==
    /\ view.showFilters
    /\ view' = [view EXCEPT !.dateRange[bound] = text]
    /\ UNCHANGED <<appVars, env>>

InitTable ==
    /\ InitUi
    /\ route = "/dashboard"
    /\ data = MockData
    /\ view = TransactionTable
    /\ env = UTC

NextTable ==
    \/ \E field \in SortFields : handleSort(field)
    \/ clearFilters
    \/ \E text \in SearchQueries : setSearchQuery(text)
    \/ \E category \in CategoryChoices : setSelectedCategory(category)
    \/ setShowFilters
    \/ \E bound \in {"min", "max"} : \E text \in AmountTexts : setAmountRange(bound, text)
    \/ \E bound \in {"start", "end"} : \E text \in DateTexts : setDateRange(bound, text)

SpecTable == InitTable /\ [][NextTable]_vars

\* C29: the table starts sorted by (date, desc); a click on the header of the
\* sorted column keeps the column and flips the direction between asc and
\* desc; a click on another column selects it with direction desc; clearing
\* the filters changes neither the sort column nor the direction.
C29_SortClicks ==
    /\ view.sortField = "date" /\ view.sortDirection = "desc"
    /\ [][\A field \in SortFields :
            handleSort(field) =>
                IF view.sortField = field
                THEN /\ view'.sortField = field
                     /\ view'.sortDirection # view.sortDirection
                     /\ view'.sortDirection \in {"asc", "desc"}
                ELSE /\ view'.sortField = field
                     /\ view'.sortDirection = "desc"]_vars
    /\ [][clearFilters =>
            /\ view'.sortField = view.sortField
            /\ view'.sortDirection = view.sortDirection
            /\ ~hasActiveFilters']_vars

\* a column other than the first chosen, clicked again so that it sorts
\* ascending, with the filter panel open and no filter active
C29_Witness ==
    /\ view.op = "TransactionTable"
    /\ view.sortField = "amount"
    /\ view.sortDirection = "asc"
    /\ view.showFilters
    /\ ~hasActiveFilters

====
